---------------------------- MODULE Spec2Model ----------------------------
(***************************************************************************)
(* Model of the statistical decision engine of the triangle-test sidebar:  *)
(* the threshold lookup of utils/statistics.ts and the report builder      *)
(* buildStatReport of services/statReport.ts, with the constants of        *)
(* constants.ts.                                                           *)
(*                                                                         *)
(* Test-type names are Chinese strings in the source; TLA+ strings are     *)
(* ASCII, so "factory_sample" stands for the source's difference-test name *)
(* (constants.ts line 27) and "alt_test" for the similarity-test name      *)
(* (constants.ts line 25).  Template strings are modelled by records of    *)
(* their interpolated parts.                                               *)
(***************************************************************************)
EXTENDS Integers, Sequences, FiniteSets, TLC

VARIABLES
    selectedStatRecords,  \* StatReportParams.selectedStatRecords
    statTestType,         \* StatReportParams.statTestType
    statGroupSize,        \* StatReportParams.statGroupSize
    statCountWarning,     \* StatReportParams.statCountWarning
    selectedTestName,     \* StatReportParams.selectedTestName
    statSampleName,       \* StatReportParams.statSampleName
    result,               \* the StatReportResult of the last buildStatReport call
    sampleSize,           \* argument of a direct getThresholdByType call
    thresholdResult,      \* value returned by that call
    fnArgs,               \* arguments of a direct call of a function of statistics.ts
    fnResult,             \* <<value returned by that call>>, <<>> before it
    pc,                   \* "ready" before the call, "done" after it
    tableId,              \* usePdfMode: id of the table the record list came from
    allRecords,           \* usePdfMode: the records of the list
    selectedRecordId,     \* usePdfMode: id of the selected record, "" when none
    selectedRecordName,   \* usePdfMode: its text in the index column
    groups,               \* usePdfMode: the loaded groups, each with the record it was read from
    initLoading,          \* usePdfMode: the first read of the record list is running
    recordListLoading,    \* usePdfMode: a refresh of the record list is running
    loading,              \* usePdfMode: loadRecord or buildPdf is running
    error,                \* usePdfMode: error text
    status,               \* usePdfMode: status text
    fetchList,            \* the running fetchRecordList call
    loadRec,              \* the running loadRecord call and the render it closed over
    build,                \* the running buildPdf call and the props it was given
    uploaded,             \* <<[recordId, sheetOf]>> of the last upload to the attachment field
    \* hooks/useStatMode.ts: the remaining state of the hook
    statRecords,          \* useState, line 48
    statReportMd,         \* useState, line 53: <<>> for '', <<md>> otherwise
    statReportForTestName,\* useState, line 54
    statLoading,          \* useState, line 55
    statError,            \* useState, line 56
    statStatus,           \* useState, line 57
    statWriteRecordId,    \* useState, line 58
    statTestSearch,       \* useState, line 59
    pendingEffects,       \* the useEffect callbacks React still has to run
    load,                 \* the loadStatData invocation in flight, with its closure
    write,                \* the writeStatReportToField invocation: its closure while
                          \* in flight, the field values it has set once it is over
    groupSizeEdited,      \* history: the user has typed a per-group size
    viewContents,         \* statistics table: the record lists a read of the view can
                          \* collect
    statView              \* statistics table: the visible record ids of the view and
                          \* what its fields hold, for the batch loop of loadStatData

pdfVars == <<tableId, allRecords, selectedRecordId, selectedRecordName, groups, initLoading,
             recordListLoading, loading, error, status, fetchList, loadRec, build,
             uploaded>>

hookVars == <<pdfVars, statRecords, statReportMd, statReportForTestName, statLoading,
              statError, statStatus, statWriteRecordId, statTestSearch,
              pendingEffects, load, write, groupSizeEdited, viewContents,
              statView>>

vars == <<selectedStatRecords, statTestType, statGroupSize, statCountWarning,
          selectedTestName, statSampleName, result, sampleSize,
          thresholdResult, fnArgs, fnResult, pc, hookVars>>

---------------------------------------------------------------------------
(* Bounds of the explored inputs *)

\* longest record list explored (the tables end at 54)
MaxRecords == 55
\* most correct records in a list (the largest threshold is 24)
MaxCorrect == 26
\* user-declared group sizes explored: -GroupSizeBelow .. MaxGroupSize
GroupSizeBelow == 1
MaxGroupSize == 10
\* sample sizes handed directly to getThresholdByType: -SampleBelow .. MaxSample
SampleBelow == 3
MaxSample == 58
\* longest record list of the aggregation runs
MaxListLen == 4
\* largest per-group size typed into the statistics panel
MaxTypedGroupSize == 8
\* most record ids in the view read by the batch loop
MaxViewLen == 52
\* numbers of trials handed to the binomial functions: -TrialsBelow .. MaxTrials
TrialsBelow == 1
MaxTrials == 10

---------------------------------------------------------------------------
(* constants.ts *)

FACTORY_TYPE == "factory_sample"
ALT_TYPE == "alt_test"
DEFAULT_STAT_TEST_TYPE == ALT_TYPE

\* the two keys of TEST_TYPE_RULES and a string that is no key of it
TestTypes == {FACTORY_TYPE, ALT_TYPE, "other"}

GroupKeys == <<"A1", "A2", "A3", "B1", "B2", "B3">>

\* alpha in hundredths (0.05 -> 5, 0.10 -> 10); p as <<numerator, denominator>>
TEST_TYPE_RULES ==
    [t \in {ALT_TYPE, FACTORY_TYPE} |->
        IF t = ALT_TYPE
        THEN [groupSize |-> 7, alpha |-> 5, name |-> "alt_test (alpha=0.05)", p |-> <<1, 5>>]
        ELSE [groupSize |-> 6, alpha |-> 10, name |-> "factory_sample (alpha=0.10)", p |-> <<1, 3>>]]

FACTORY_MIN_N == 36
FACTORY_MAX_N == 54
FACTORY_BASE_THRESHOLD == 18
FACTORY_DIFF_THRESHOLD_TABLE_gap ==
    [n \in (37..54) \ {45} |->
        CASE n \in 37..39 -> 18
          [] n \in 40..41 -> 19
          [] n \in 42..44 -> 20
          [] n \in 46..47 -> 21
          [] n \in 48..49 -> 22
          [] n \in 50..52 -> 23
          [] n \in 53..54 -> 24]

FACTORY_DIFF_THRESHOLD_TABLE ==
    [n \in 37..54 |->
        CASE n \in 37..39 -> 18
          [] n \in 40..41 -> 19
          [] n \in 42..44 -> 20
          [] n \in 45..47 -> 21
          [] n \in 48..49 -> 22
          [] n \in 50..52 -> 23
          [] n \in 53..54 -> 24]

ALT_MIN_N == 42
ALT_MAX_N == 54
ALT_BASE_MAX_ALLOWED == 16
ALT_SIMILARITY_MAX_TABLE_dip ==
    [n \in 43..54 |->
        CASE n = 43 -> 17
          [] n \in 44..45 -> 18
          [] n = 46 -> 19
          [] n = 47 -> 18
          [] n \in 48..50 -> 20
          [] n \in 51..52 -> 21
          [] n \in 53..54 -> 22]

ALT_SIMILARITY_MAX_TABLE ==
    [n \in 43..54 |->
        CASE n = 43 -> 17
          [] n \in 44..45 -> 18
          [] n \in 46..47 -> 19
          [] n \in 48..50 -> 20
          [] n \in 51..52 -> 21
          [] n \in 53..54 -> 22]

---------------------------------------------------------------------------
(* JavaScript helpers: an absent value is the empty tuple, a present value v *)
(* is <<v>>; Coalesce is the ?? operator.                                   *)

Lookup(table, key) == IF key \in DOMAIN table THEN <<table[key]>> ELSE <<>>
Coalesce(a, b) == IF a # <<>> THEN a ELSE b
Max(a, b) == IF a >= b THEN a ELSE b
Min(a, b) == IF a <= b THEN a ELSE b

---------------------------------------------------------------------------
(* utils/statistics.ts *)

clampSampleSize_noUpper(n, minN, maxN) ==
    IF n <= minN THEN minN ELSE n

clampSampleSize(n, minN, maxN) ==
    IF n <= minN THEN minN
    ELSE IF n >= maxN THEN maxN
    ELSE n

\* the value FACTORY_DIFF_THRESHOLD_TABLE[n] of line 55, absent when n is no key
factoryTableVal(n) == Lookup(FACTORY_DIFF_THRESHOLD_TABLE, n)

\* the value ALT_SIMILARITY_MAX_TABLE[n] of line 62, absent when n is no key
altTableVal(n) == Lookup(ALT_SIMILARITY_MAX_TABLE, n)

factoryThreshold_strictBase(sampleSize_) ==
    LET n == clampSampleSize(sampleSize_, FACTORY_MIN_N, FACTORY_MAX_N)
    IN  IF n < FACTORY_MIN_N THEN FACTORY_BASE_THRESHOLD
        ELSE Coalesce(factoryTableVal(n),
                 Coalesce(factoryTableVal(FACTORY_MAX_N), <<FACTORY_BASE_THRESHOLD>>))[1]

\* the '===' branch of getThresholdByType for the difference test
factoryThreshold(sampleSize_) ==
    LET n == clampSampleSize(sampleSize_, FACTORY_MIN_N, FACTORY_MAX_N)
    IN  IF n <= FACTORY_MIN_N THEN FACTORY_BASE_THRESHOLD
        ELSE Coalesce(factoryTableVal(n),
                 Coalesce(factoryTableVal(FACTORY_MAX_N), <<FACTORY_BASE_THRESHOLD>>))[1]

altThreshold_noPlusOne(sampleSize_) ==
    LET n == clampSampleSize(sampleSize_, ALT_MIN_N, ALT_MAX_N)
    IN  IF n <= ALT_MIN_N THEN ALT_BASE_MAX_ALLOWED + 1
        ELSE Coalesce(altTableVal(n),
                 Coalesce(altTableVal(ALT_MAX_N), <<ALT_BASE_MAX_ALLOWED>>))[1]

\* the default branch of getThresholdByType (similarity test)
altThreshold(sampleSize_) ==
    LET n == clampSampleSize(sampleSize_, ALT_MIN_N, ALT_MAX_N)
    IN  IF n <= ALT_MIN_N THEN ALT_BASE_MAX_ALLOWED + 1
        ELSE Coalesce(altTableVal(n),
                 Coalesce(altTableVal(ALT_MAX_N), <<ALT_BASE_MAX_ALLOWED>>))[1] + 1

getThresholdByType(testType, sampleSize_) ==
    IF testType = FACTORY_TYPE THEN factoryThreshold(sampleSize_)
    ELSE altThreshold(sampleSize_)

getAlphaByType(testType) ==
    LET rule == Lookup(TEST_TYPE_RULES, testType)
    IN  IF rule # <<>> THEN rule[1].alpha ELSE 5

---------------------------------------------------------------------------
(* utils/statistics.ts: the binomial functions.  A probability, alpha and p  *)
(* are exact fractions [num, den] with den > 0: Math.log and Math.exp are    *)
(* taken as exact, so exp(logComb + k log p + (n-k) log(1-p)) is the         *)
(* fraction C(n,k) a^k (b-a)^(n-k) / b^n for p = a/b.  Floating-point        *)
(* rounding (of the order of 1e-16) is not represented.                      *)

Frac(a, b) == [num |-> a, den |-> b]
Zero == Frac(0, 1)
One == Frac(1, 1)
FracLeq(x, y) ==
    IF x.den = y.den THEN x.num <= y.num ELSE x.num * y.den <= y.num * x.den
FracEq(x, y) ==
    IF x.den = y.den THEN x.num = y.num ELSE x.num * y.den = y.num * x.den
FracAdd(x, y) ==
    IF x.num = 0 THEN y
    ELSE IF y.num = 0 THEN x
    ELSE IF x.den = y.den THEN Frac(x.num + y.num, x.den)
    ELSE Frac(x.num * y.den + y.num * x.den, x.den * y.den)

RECURSIVE Pow(_, _)
Pow(x, e) == IF e <= 0 THEN 1 ELSE x * Pow(x, e - 1)

\* exp of the logComb accumulated by the loop of lines 20-22:
\* the product of (n - m + i) / i for i = 1..m
RECURSIVE combLoop(_, _, _, _, _)
combLoop(n, m, i, above, below) ==
    IF i <= m THEN combLoop(n, m, i + 1, above * (n - m + i), below * i)
    ELSE above \div below

binomProb_degenerateFirst(n, k, p) ==
    IF p.num <= 0 \/ p.num >= p.den
    THEN IF k = (IF p.num >= p.den THEN n ELSE 0) THEN One ELSE Zero
    ELSE IF k < 0 \/ k > n THEN Zero
    ELSE Frac(combLoop(n, Min(k, n - k), 1, 1, 1)
                  * Pow(p.num, k) * Pow(p.den - p.num, n - k),
              Pow(p.den, n))

binomProb_sameP(n, k, p) ==
    IF k < 0 \/ k > n THEN Zero
    ELSE IF p.num <= 0 \/ p.num >= p.den
    THEN IF k = (IF p.num >= p.den THEN n ELSE 0) THEN One ELSE Zero
    ELSE Frac(combLoop(n, Min(k, n - k), 1, 1, 1)
                  * Pow(p.num, k) * Pow(p.num, n - k),
              Pow(p.den, n))

binomProb(n, k, p) ==
    IF k < 0 \/ k > n THEN Zero
    ELSE IF p.num <= 0 \/ p.num >= p.den
    THEN IF k = (IF p.num >= p.den THEN n ELSE 0) THEN One ELSE Zero
    ELSE Frac(combLoop(n, Min(k, n - k), 1, 1, 1)
                  * Pow(p.num, k) * Pow(p.den - p.num, n - k),
              Pow(p.den, n))

RECURSIVE binomTailLoop(_, _, _, _)
binomTailLoop(n, i, p, sum) ==
    IF i <= n THEN binomTailLoop(n, i + 1, p, FracAdd(sum, binomProb(n, i, p)))
    ELSE sum

binomTail_dropLast(n, k, p) == binomTailLoop(n - 1, k, p, Zero)

binomTail(n, k, p) == binomTailLoop(n, k, p, Zero)

RECURSIVE thresholdLoop(_, _, _, _)
thresholdLoop(n, k, alpha, p) ==
    IF k <= n
    THEN IF FracLeq(binomTail(n, k, p), alpha) THEN k
         ELSE thresholdLoop(n, k + 1, alpha, p)
    ELSE n + 1

getSignificanceThreshold_guardNegative(n, alpha, p) ==
    IF n < 0 THEN 0 ELSE thresholdLoop(n, 0, alpha, p)

getSignificanceThreshold(n, alpha, p) ==
    IF n <= 0 THEN 0 ELSE thresholdLoop(n, 0, alpha, p)

---------------------------------------------------------------------------
(* services/statReport.ts: the locals of buildStatReport, one operator each *)

EmptyRecordsError == "no records for the selected test"

typeRuleOf(testType) == Lookup(TEST_TYPE_RULES, testType)

expectedPerGroup_ignoreRule(groupSize, testType) == Max(groupSize, 0)

expectedPerGroupOf(groupSize, testType) ==
    LET typeRule == typeRuleOf(testType)
    IN  Max(groupSize, IF typeRule # <<>> THEN typeRule[1].groupSize ELSE 0)

expectedTotalByRuleOf(expectedPerGroup) == Max(0, expectedPerGroup) * 6

countMismatchOf(totalPeople, expectedTotalByRule) ==
    expectedTotalByRule > 0 /\ totalPeople # expectedTotalByRule

countShortage_perGroup(totalPeople, expectedTotalByRule) ==
    expectedTotalByRule > 0 /\ totalPeople * 6 < expectedTotalByRule

countShortageOf(totalPeople, expectedTotalByRule) ==
    expectedTotalByRule > 0 /\ totalPeople < expectedTotalByRule

isCorrect(r) == r.answer = r.correct

correctCountOf(records) == Len(SelectSeq(records, isCorrect))

minSampleLimitOf(testType) == IF testType = FACTORY_TYPE THEN FACTORY_MIN_N ELSE ALT_MIN_N
maxSampleLimitOf(testType) == IF testType = FACTORY_TYPE THEN FACTORY_MAX_N ELSE ALT_MAX_N

baseBeforeClampOf(expectedTotalByRule, totalPeople) ==
    IF expectedTotalByRule > 0 THEN Max(expectedTotalByRule, totalPeople) ELSE totalPeople

insufficient_atMost(totalPeople, threshold) == totalPeople <= threshold

insufficientOf(totalPeople, threshold) == totalPeople < threshold

significant_strict(totalPeople, correctCount, threshold) ==
    ~insufficientOf(totalPeople, threshold) /\ correctCount > threshold

significantOf(totalPeople, correctCount, threshold) ==
    ~insufficientOf(totalPeople, threshold) /\ correctCount >= threshold

pass_ignoreShortage(countShortage, significant) == ~significant

passOf(countShortage, significant) ==
    LET passByRule == ~significant
    IN  ~countShortage /\ passByRule

\* every local of lines 109-126, computed in the order of the source
StatReportCalc(records, testType, groupSize) ==
    LET totalPeople == Len(records)
        expectedPerGroup == expectedPerGroupOf(groupSize, testType)
        expectedTotalByRule == expectedTotalByRuleOf(expectedPerGroup)
        correctCount == correctCountOf(records)
        countShortage == countShortageOf(totalPeople, expectedTotalByRule)
        minSampleLimit == minSampleLimitOf(testType)
        maxSampleLimit == maxSampleLimitOf(testType)
        baseBeforeClamp == baseBeforeClampOf(expectedTotalByRule, totalPeople)
        thresholdBase == clampSampleSize(baseBeforeClamp, minSampleLimit, maxSampleLimit)
        threshold == getThresholdByType(testType, thresholdBase)
        significant == significantOf(totalPeople, correctCount, threshold)
    IN  [totalPeople |-> totalPeople,
         typeRule |-> typeRuleOf(testType),
         expectedPerGroup |-> expectedPerGroup,
         expectedTotalByRule |-> expectedTotalByRule,
         countMismatch |-> countMismatchOf(totalPeople, expectedTotalByRule),
         countShortage |-> countShortage,
         correctCount |-> correctCount,
         alpha |-> getAlphaByType(testType),
         minSampleLimit |-> minSampleLimit,
         maxSampleLimit |-> maxSampleLimit,
         thresholdBase |-> thresholdBase,
         threshold |-> threshold,
         insufficient |-> insufficientOf(totalPeople, threshold),
         significant |-> significant,
         pass |-> passOf(countShortage, significant)]

---------------------------------------------------------------------------
(* services/statReport.ts: the strings and tables of the report *)

\* a || b on strings
OrElse(a, b) == IF a # "" THEN a ELSE b

DefaultSampleTitle == "this sample"
NoTestName == "test name not available"
NoSampleName == "not available"
Dash == "-"

\* rangeDesc: the interpolated numbers of either branch
rangeDescOf(testType) ==
    IF testType = FACTORY_TYPE
    THEN [min |-> FACTORY_MIN_N, max |-> FACTORY_MAX_N,
          base |-> FACTORY_BASE_THRESHOLD, tableFrom |-> FACTORY_MIN_N + 1]
    ELSE [min |-> ALT_MIN_N, max |-> ALT_MAX_N,
          base |-> ALT_BASE_MAX_ALLOWED + 1, tableFrom |-> ALT_MIN_N + 1]

\* passRuleDescWithType: typeName is absent when the type has no rule, perGroup
\* is absent in the branch taken when expectedTotalByRule is 0
passRuleDescWithTypeOf(c, testType) ==
    [typeName |-> IF c.typeRule # <<>> THEN <<c.typeRule[1].name>> ELSE <<>>,
     perGroup |-> IF c.expectedTotalByRule > 0 THEN <<c.expectedPerGroup>> ELSE <<>>,
     thresholdBase |-> c.thresholdBase,
     range |-> rangeDescOf(testType),
     alpha |-> c.alpha,
     threshold |-> c.threshold]

resultDescOf(c, rule) ==
    IF c.countShortage
    THEN [kind |-> "shortage", total |-> c.totalPeople, expected |-> c.expectedTotalByRule]
    ELSE [kind |-> "judged", total |-> c.totalPeople,
          mismatch |-> IF c.countMismatch THEN <<c.expectedTotalByRule>> ELSE <<>>,
          correct |-> c.correctCount, rule |-> rule,
          verdict |-> IF c.pass THEN "meets the pass standard" ELSE "fails the pass standard"]

conclusionOf(c, rule, testName) ==
    IF c.countShortage
    THEN [kind |-> "shortage", name |-> OrElse(testName, DefaultSampleTitle)]
    ELSE IF c.pass
    THEN [kind |-> "passed", name |-> OrElse(testName, DefaultSampleTitle), rule |-> rule]
    ELSE [kind |-> "not passed", name |-> OrElse(testName, DefaultSampleTitle), rule |-> rule]

\* answer texts that are canonical array indices are enumerated first, in
\* ascending numeric order, by Object.entries; the model knows these two
ArrayIndexKeys == {"136", "527"}
ArrayIndexValue(k) == IF k = "136" THEN 136 ELSE 527

optionKeyOf(r) == OrElse(r.answer, Dash)

\* Object.entries(optionCount) after the forEach of lines 154-160, sorted by
\* descending count with a stable sort
optionEntriesOf(records, key) ==
    LET inGroup(r) == r.groupKey = key
        mine == SelectSeq(records, inGroup)
        keys == {optionKeyOf(mine[i]) : i \in 1..Len(mine)}
        cnt == [k \in keys |-> Cardinality({i \in 1..Len(mine) : optionKeyOf(mine[i]) = k})]
        first == [k \in keys |->
                    CHOOSE i \in 1..Len(mine) :
                        /\ optionKeyOf(mine[i]) = k
                        /\ \A j \in 1..(i - 1) : optionKeyOf(mine[j]) # k]
        ownKeyBefore(a, b) ==
            IF a \in ArrayIndexKeys /\ b \in ArrayIndexKeys
            THEN ArrayIndexValue(a) < ArrayIndexValue(b)
            ELSE IF a \in ArrayIndexKeys THEN TRUE
            ELSE IF b \in ArrayIndexKeys THEN FALSE
            ELSE first[a] < first[b]
        sortedBefore(a, b) ==
            cnt[a] > cnt[b] \/ (cnt[a] = cnt[b] /\ ownKeyBefore(a, b))
        rank == [k \in keys |-> Cardinality({a \in keys : a # k /\ sortedBefore(a, k)})]
    IN  [j \in 1..Cardinality(keys) |->
            LET k == CHOOSE a \in keys : rank[a] = j - 1
            IN  [opt |-> OrElse(k, Dash), cnt |-> cnt[k]]]

\* (g.correct / g.total * 100).toFixed(1), in tenths of a percent
correctRateOf(total, correct) ==
    IF total # 0 THEN <<(2000 * correct + total) \div (2 * total)>> ELSE <<>>

groupTableRow_skipsBlank(records, key) ==
    LET inGroup(r) == r.groupKey = key /\ r.answer # ""
        mine == SelectSeq(records, inGroup)
        total == Len(mine)
        correct == Len(SelectSeq(mine, isCorrect))
    IN  [key |-> key, total |-> total, correct |-> correct,
         correctRate |-> correctRateOf(total, correct),
         options |-> optionEntriesOf(records, key)]

groupTableRowOf(records, key) ==
    LET inGroup(r) == r.groupKey = key
        mine == SelectSeq(records, inGroup)
        total == Len(mine)
        correct == Len(SelectSeq(mine, isCorrect))
    IN  [key |-> key, total |-> total, correct |-> correct,
         correctRate |-> correctRateOf(total, correct),
         options |-> optionEntriesOf(records, key)]

groupTableRowsOf(records) ==
    [j \in 1..Len(GroupKeys) |-> groupTableRowOf(records, GroupKeys[j])]

\* an empty sequence stands for the "no correct records" placeholder line
correctRowsOf(records) ==
    LET correctRecords == SelectSeq(records, isCorrect)
    IN  [j \in 1..Len(correctRecords) |->
            [groupKey |-> correctRecords[j].groupKey,
             modifier |-> OrElse(correctRecords[j].modifier, Dash),
             feedback |-> OrElse(correctRecords[j].feedback, Dash)]]

expectedDescOf(c) ==
    IF c.expectedTotalByRule > 0
    THEN [kind |-> "expected", perGroup |-> c.expectedPerGroup,
          expectedTotal |-> c.expectedTotalByRule, actual |-> c.totalPeople]
    ELSE [kind |-> "unset"]

mdOf(records, testType, groupSize, countWarning, testName, sampleName) ==
    LET c == StatReportCalc(records, testType, groupSize)
        rule == passRuleDescWithTypeOf(c, testType)
    IN  [testName |-> OrElse(testName, NoTestName),
         sampleName |-> OrElse(sampleName, NoSampleName),
         testType |-> testType,
         alpha |-> c.alpha,
         rule |-> rule,
         expectedDesc |-> expectedDescOf(c),
         warningLines |-> IF countWarning # "" THEN <<countWarning>> ELSE <<>>,
         resultDesc |-> resultDescOf(c, rule),
         conclusion |-> conclusionOf(c, rule, testName),
         groupTableRows |-> groupTableRowsOf(records),
         correctRows |-> correctRowsOf(records)]

statusOf(countWarning) ==
    IF countWarning # "" THEN <<countWarning, "report generated">> ELSE <<"report generated">>

buildStatReport_errorWhenShort(records, testType, groupSize, countWarning, testName, sampleName) ==
    IF Len(records) = 0 \/ StatReportCalc(records, testType, groupSize).countShortage
    THEN [error |-> EmptyRecordsError]
    ELSE [md |-> mdOf(records, testType, groupSize, countWarning, testName, sampleName),
          status |-> statusOf(countWarning),
          pass |-> StatReportCalc(records, testType, groupSize).pass]

buildStatReport(records, testType, groupSize, countWarning, testName, sampleName) ==
    IF Len(records) = 0
    THEN [error |-> EmptyRecordsError]
    ELSE [md |-> mdOf(records, testType, groupSize, countWarning, testName, sampleName),
          status |-> statusOf(countWarning),
          pass |-> StatReportCalc(records, testType, groupSize).pass]

---------------------------------------------------------------------------
(* hooks/useStatMode.ts: the memoised values derived from the same inputs *)

effectiveStatGroupSize(groupSize, testType) ==
    LET rule == Lookup(TEST_TYPE_RULES, testType)
        minSize == IF rule # <<>> THEN rule[1].groupSize ELSE 0
    IN  Max(groupSize, minSize)

statExpectedTotal(groupSize, testType) ==
    Max(0, effectiveStatGroupSize(groupSize, testType)) * 6

statSummary(records) ==
    LET inGroup(key) == {i \in 1..Len(records) : records[i].groupKey = key}
    IN  [total |-> Len(records),
         perGroup |->
            [key \in {GroupKeys[j] : j \in 1..Len(GroupKeys)} |->
                [total |-> Cardinality(inGroup(key)),
                 correct |-> Cardinality({i \in inGroup(key) : isCorrect(records[i])})]]]

---------------------------------------------------------------------------
(* Inputs *)

\* a list of n records of one test, spread over the six groups in turn, whose
\* first c records are answered correctly
MkRecord(i, c) ==
    [recordId |-> i,
     testName |-> "T1",
     groupKey |-> GroupKeys[((i - 1) % 6) + 1],
     answer |-> IF i <= c THEN "527" ELSE IF i % 3 = 0 THEN "" ELSE IF i % 3 = 1 THEN "136" ELSE "B",
     correct |-> "527",
     modifier |-> IF i % 2 = 0 THEN "" ELSE "panelist",
     feedback |-> IF i % 4 = 0 THEN "sweeter" ELSE ""]

MkRecords(n, c) == [i \in 1..n |-> MkRecord(i, c)]

GroupSizes == (0 - GroupSizeBelow)..MaxGroupSize
SampleSizes == (0 - SampleBelow)..MaxSample

\* warning text, test name and sample name: all empty or all given
TextInputs == {<<"", "", "">>, <<"count warning", "T1", "S1">>}

NoResult == [none |-> TRUE]

---------------------------------------------------------------------------
(* Spec: buildStatReport applied to one input *)

\* the state of the hook, unused by the direct calls of the report builder
\* and of statistics.ts
\* usePdfMode before its first effect has run: part_001 lines 351-373
PdfIdle ==
    /\ tableId = ""
    /\ allRecords = <<>>
    /\ selectedRecordId = ""
    /\ selectedRecordName = ""
    /\ groups = <<>>
    /\ initLoading = TRUE
    /\ recordListLoading = FALSE
    /\ loading = FALSE
    /\ error = ""
    /\ status = ""
    /\ fetchList = [pc |-> "idle"]
    /\ loadRec = [pc |-> "idle"]
    /\ build = [pc |-> "idle"]
    /\ uploaded = <<>>

StatIdle ==
    /\ statRecords = <<>>
    /\ statReportMd = <<>>
    /\ statReportForTestName = ""
    /\ statLoading = FALSE
    /\ statError = ""
    /\ statStatus = <<>>
    /\ statWriteRecordId = ""
    /\ statTestSearch = ""
    /\ pendingEffects = {}
    /\ load = [pc |-> "idle"]
    /\ write = [pc |-> "idle"]
    /\ groupSizeEdited = FALSE
    /\ viewContents = {}
    /\ statView = <<>>

HookIdle == PdfIdle /\ StatIdle

HookUnchanged == UNCHANGED hookVars

Init ==
    /\ \E n \in 0..MaxRecords : \E c \in 0..Min(n, MaxCorrect) :
          selectedStatRecords = MkRecords(n, c)
    /\ statTestType \in TestTypes
    /\ statGroupSize \in GroupSizes
    /\ \E t \in TextInputs :
          /\ statCountWarning = t[1]
          /\ selectedTestName = t[2]
          /\ statSampleName = t[3]
    /\ result = NoResult
    /\ sampleSize = 0
    /\ thresholdResult = <<>>
    /\ fnArgs = <<>>
    /\ fnResult = <<>>
    /\ pc = "ready"
    /\ HookIdle

isIncorrect(r) == ~isCorrect(r)

BuildStatReport_sortsInPlace ==
    /\ pc = "ready"
    /\ result' = buildStatReport(selectedStatRecords, statTestType, statGroupSize,
                                 statCountWarning, selectedTestName, statSampleName)
    /\ selectedStatRecords' = SelectSeq(selectedStatRecords, isCorrect)
                                 \o SelectSeq(selectedStatRecords, isIncorrect)
    /\ pc' = "done"
    /\ UNCHANGED <<statTestType, statGroupSize, statCountWarning,
                   selectedTestName, statSampleName, sampleSize, thresholdResult,
                   fnArgs, fnResult, hookVars>>

BuildStatReport ==
    /\ pc = "ready"
    /\ result' = buildStatReport(selectedStatRecords, statTestType, statGroupSize,
                                 statCountWarning, selectedTestName, statSampleName)
    /\ pc' = "done"
    /\ UNCHANGED <<selectedStatRecords, statTestType, statGroupSize, statCountWarning,
                   selectedTestName, statSampleName, sampleSize, thresholdResult,
                   fnArgs, fnResult, hookVars>>

Next == BuildStatReport

Spec == Init /\ [][Next]_vars

---------------------------------------------------------------------------
(* SpecAggregate: buildStatReport applied to every short record list over two *)
(* groups and four answer texts, two of them numeric sample codes            *)

AggregateGroups == {"A1", "B2"}
AggregateAnswers == {"", "136", "527", "B"}

InitAggregate ==
    /\ \E n \in 0..MaxListLen :
          \E g \in [1..n -> AggregateGroups] : \E a \in [1..n -> AggregateAnswers] :
             selectedStatRecords =
                [i \in 1..n |->
                    [recordId |-> i, testName |-> "T1", groupKey |-> g[i],
                     answer |-> a[i], correct |-> "527",
                     modifier |-> "panelist", feedback |-> ""]]
    /\ statTestType = FACTORY_TYPE
    /\ statGroupSize = 6
    /\ statCountWarning = ""
    /\ selectedTestName = "T1"
    /\ statSampleName = "S1"
    /\ result = NoResult
    /\ sampleSize = 0
    /\ thresholdResult = <<>>
    /\ fnArgs = <<>>
    /\ fnResult = <<>>
    /\ pc = "ready"
    /\ HookIdle

SpecAggregate == InitAggregate /\ [][Next]_vars

---------------------------------------------------------------------------
(* SpecThreshold: getThresholdByType applied to one sample size *)

InitThreshold ==
    /\ selectedStatRecords = <<>>
    /\ statTestType \in TestTypes
    /\ statGroupSize = 0
    /\ statCountWarning = ""
    /\ selectedTestName = ""
    /\ statSampleName = ""
    /\ result = NoResult
    /\ sampleSize \in SampleSizes
    /\ thresholdResult = <<>>
    /\ fnArgs = <<>>
    /\ fnResult = <<>>
    /\ pc = "ready"
    /\ HookIdle

GetThresholdByType ==
    /\ pc = "ready"
    /\ thresholdResult' = <<getThresholdByType(statTestType, sampleSize)>>
    /\ pc' = "done"
    /\ UNCHANGED <<selectedStatRecords, statTestType, statGroupSize, statCountWarning,
                   selectedTestName, statSampleName, result, sampleSize,
                   fnArgs, fnResult, hookVars>>

NextThreshold == GetThresholdByType

SpecThreshold == InitThreshold /\ [][NextThreshold]_vars

---------------------------------------------------------------------------
(* SpecClamp: clampSampleSize applied to one size and one pair of bounds *)

\* the report inputs and results, unused by the direct calls of statistics.ts
ReportIdle ==
    /\ selectedStatRecords = <<>>
    /\ statTestType = DEFAULT_STAT_TEST_TYPE
    /\ statGroupSize = 0
    /\ statCountWarning = ""
    /\ selectedTestName = ""
    /\ statSampleName = ""
    /\ result = NoResult
    /\ sampleSize = 0
    /\ thresholdResult = <<>>
    /\ HookIdle

ReportUnchanged ==
    UNCHANGED <<selectedStatRecords, statTestType, statGroupSize, statCountWarning,
                selectedTestName, statSampleName, result, sampleSize, thresholdResult,
                hookVars>>

\* the bounds clampSampleSize is called with: statistics.ts lines 53 and 60,
\* statReport.ts lines 118-121
ClampCallBounds == {<<FACTORY_MIN_N, FACTORY_MAX_N>>, <<ALT_MIN_N, ALT_MAX_N>>}

InitClamp ==
    /\ ReportIdle
    /\ \E n \in SampleSizes : \E b \in ClampCallBounds :
          fnArgs = [n |-> n, minN |-> b[1], maxN |-> b[2]]
    /\ fnResult = <<>>
    /\ pc = "ready"

ClampSampleSize ==
    /\ pc = "ready"
    /\ fnResult' = <<clampSampleSize(fnArgs.n, fnArgs.minN, fnArgs.maxN)>>
    /\ pc' = "done"
    /\ UNCHANGED fnArgs
    /\ ReportUnchanged

NextClamp == ClampSampleSize

SpecClamp == InitClamp /\ [][NextClamp]_vars

---------------------------------------------------------------------------
(* SpecSignificance: getSignificanceThreshold applied to one (n, alpha, p) *)

Trials == (0 - TrialsBelow)..MaxTrials
\* the guess probabilities of TEST_TYPE_RULES (1/5, 1/3), 1/2 and the two ends
Probabilities == {Frac(0, 1), Frac(1, 5), Frac(1, 3), Frac(1, 2), Frac(1, 1)}
\* p outside [0, 1] as well
AnyP == Probabilities \cup {Frac(0 - 1, 3), Frac(4, 3)}
\* the levels of TEST_TYPE_RULES (0.05, 0.10) and 0
Alphas == {Frac(0, 1), Frac(1, 20), Frac(1, 10)}

InitSignificance ==
    /\ ReportIdle
    /\ \E n \in Trials : \E alpha \in Alphas : \E p \in Probabilities :
          fnArgs = [n |-> n, alpha |-> alpha, p |-> p]
    /\ fnResult = <<>>
    /\ pc = "ready"

GetSignificanceThreshold ==
    /\ pc = "ready"
    /\ fnResult' = <<getSignificanceThreshold(fnArgs.n, fnArgs.alpha, fnArgs.p)>>
    /\ pc' = "done"
    /\ UNCHANGED fnArgs
    /\ ReportUnchanged

NextSignificance == GetSignificanceThreshold

SpecSignificance == InitSignificance /\ [][NextSignificance]_vars

---------------------------------------------------------------------------
(* SpecBinom: binomProb or binomTail applied to one (n, k, p) *)

InitBinom ==
    /\ ReportIdle
    /\ \E n \in Trials : \E k \in (0 - 1)..(MaxTrials + 1) : \E p \in AnyP :
          fnArgs = [n |-> n, k |-> k, p |-> p]
    /\ fnResult = <<>>
    /\ pc = "ready"

BinomProb ==
    /\ pc = "ready"
    /\ fnResult' = <<[fn |-> "binomProb", value |-> binomProb(fnArgs.n, fnArgs.k, fnArgs.p)]>>
    /\ pc' = "done"
    /\ UNCHANGED fnArgs
    /\ ReportUnchanged

BinomTail ==
    /\ pc = "ready"
    /\ fnResult' = <<[fn |-> "binomTail", value |-> binomTail(fnArgs.n, fnArgs.k, fnArgs.p)]>>
    /\ pc' = "done"
    /\ UNCHANGED fnArgs
    /\ ReportUnchanged

NextBinom == BinomProb \/ BinomTail

SpecBinom == InitBinom /\ [][NextBinom]_vars

---------------------------------------------------------------------------
(* Properties of buildStatReport (Spec) *)

Canonical == {FACTORY_TYPE, ALT_TYPE}
RuleMinGroupSize(t) == IF t = FACTORY_TYPE THEN 6 ELSE 7
DomainLow(t) == IF t = FACTORY_TYPE THEN 36 ELSE 42


observedTotal == Len(selectedStatRecords)
observedCorrect ==
    Cardinality({i \in 1..Len(selectedStatRecords) :
                    selectedStatRecords[i].answer = selectedStatRecords[i].correct})

Called == pc = "done"
HasReport == Called /\ "md" \in DOMAIN result

\* the numbers the report states
ReportedExpectedTotal ==
    IF result.md.expectedDesc.kind = "expected"
    THEN result.md.expectedDesc.expectedTotal ELSE 0
ReportedThreshold == result.md.rule.threshold
ReportedThresholdBase == result.md.rule.thresholdBase
ReportedShortage == result.md.resultDesc.kind = "shortage"

Locals == StatReportCalc(selectedStatRecords, statTestType, statGroupSize)

\* C1: for every non-empty record list, test type and group size, the pass
\* flag equals (not countShortage) and (not significant), with countShortage =
\* (expectedTotal > 0 and observedTotal < expectedTotal) and significant
\* decided against the threshold of the chosen test type.
C1_PassIsNoShortageAndNotSignificant ==
    (Called /\ observedTotal > 0) =>
        /\ HasReport
        /\ LET shortage == ReportedExpectedTotal > 0 /\ observedTotal < ReportedExpectedTotal
               significant == observedTotal >= ReportedThreshold
                              /\ observedCorrect >= ReportedThreshold
           IN  /\ result.pass = (~shortage /\ ~significant)
               /\ ReportedThreshold = getThresholdByType(statTestType, ReportedThresholdBase)

C1_Witness ==
    /\ HasReport
    /\ result.pass
    /\ ReportedExpectedTotal = 42
    /\ observedTotal = 45
    /\ observedCorrect = ReportedThreshold - 1

\* C2: a non-empty record list shorter than the expected total still gets a
\* report (markdown, no error) whose pass flag is false whatever the number of
\* correct answers, and whose text states the sample shortage.
C2_ShortageForcesFail ==
    (Called /\ observedTotal # 0) =>
        /\ HasReport
        /\ LET expected == IF statTestType \in Canonical
                           THEN 6 * Max(statGroupSize, RuleMinGroupSize(statTestType))
                           ELSE ReportedExpectedTotal
           IN  observedTotal < expected =>
                   /\ "error" \notin DOMAIN result
                   /\ result.pass = FALSE
                   /\ result.md.resultDesc.kind = "shortage"
                   /\ result.md.resultDesc.expected = expected
                   /\ result.md.conclusion.kind = "shortage"

C2_Witness ==
    /\ HasReport
    /\ statTestType = FACTORY_TYPE
    /\ statGroupSize <= 6
    /\ observedTotal = 30
    /\ observedCorrect = 0
    /\ statCountWarning = ""
    /\ result.pass = FALSE
    /\ ReportedShortage

\* C3: the result is an error exactly when the record list is empty; an error
\* result has no markdown and no pass value, any other result has markdown, a
\* boolean pass and no error.
C3_ErrorIffEmpty ==
    Called =>
        IF observedTotal = 0
        THEN DOMAIN result = {"error"} /\ result.error # ""
        ELSE DOMAIN result = {"md", "status", "pass"} /\ result.pass \in BOOLEAN

C3_Witness ==
    Called /\ observedTotal = 0 /\ "error" \in DOMAIN result /\ statGroupSize = 7

\* C4: difference test, group size unset or at most 6, exactly 36 records:
\* expectedTotal 36, no shortage, threshold 18, pass exactly when fewer than 18
\* records are correct.
C4_Scenario36 ==
    (Called /\ statTestType = FACTORY_TYPE /\ statGroupSize <= 6 /\ observedTotal = 36) =>
        /\ HasReport
        /\ ReportedExpectedTotal = 36
        /\ ~ReportedShortage
        /\ ReportedThreshold = 18
        /\ result.pass = (observedCorrect < 18)

C4_Witness ==
    /\ HasReport
    /\ statTestType = FACTORY_TYPE
    /\ statGroupSize = 0
    /\ observedTotal = 36
    /\ observedCorrect = 18
    /\ result.pass = FALSE
    /\ ~ReportedShortage

\* C5: a test-type string that is neither canonical value gets the default
\* (similarity) rule as a whole: expectedTotal, countShortage, threshold, alpha
\* and pass are those of the default type name with the same records and
\* group size.
C5_UnknownTypeIsDefaultRule ==
    (HasReport /\ statTestType \notin Canonical) =>
        LET d == buildStatReport(selectedStatRecords, DEFAULT_STAT_TEST_TYPE, statGroupSize,
                                 statCountWarning, selectedTestName, statSampleName)
        IN  /\ result.md.expectedDesc = d.md.expectedDesc
            /\ result.md.resultDesc.kind = d.md.resultDesc.kind
            /\ result.md.rule.threshold = d.md.rule.threshold
            /\ result.md.alpha = d.md.alpha
            /\ result.pass = d.pass

\* C6: for the two test types and every integer group size the effective
\* group size is max(userGroupSize, rule.minGroupSize) and expectedTotal is 6
\* times it, never below 42 (similarity) or 36 (difference); the hook's memo
\* gives the same expected total.
C6_ExpectedTotal ==
    (Called /\ observedTotal > 0 /\ statTestType \in Canonical) =>
        /\ HasReport
        /\ result.md.expectedDesc.kind = "expected"
        /\ result.md.expectedDesc.perGroup = Max(statGroupSize, RuleMinGroupSize(statTestType))
        /\ result.md.expectedDesc.expectedTotal = 6 * result.md.expectedDesc.perGroup
        /\ result.md.expectedDesc.expectedTotal >= (IF statTestType = ALT_TYPE THEN 42 ELSE 36)
        /\ effectiveStatGroupSize(statGroupSize, statTestType) = result.md.expectedDesc.perGroup
        /\ statExpectedTotal(statGroupSize, statTestType) = result.md.expectedDesc.expectedTotal

C6_Witness ==
    /\ HasReport
    /\ statTestType = ALT_TYPE
    /\ statGroupSize < 0
    /\ result.md.expectedDesc.expectedTotal = 42
    /\ statExpectedTotal(statGroupSize, statTestType) = 42

\* C7: the sample size used for the threshold is max(expectedTotal,
\* observedTotal) clipped into the table domain of the test type ([36,54]
\* difference, [42,54] similarity), and the threshold is the one of that size.
C7_ThresholdBaseClamped ==
    (Called /\ observedTotal > 0) =>
        /\ HasReport
        /\ LET lo == DomainLow(statTestType)
               m == Max(ReportedExpectedTotal, observedTotal)
               clipped == IF m < lo THEN lo ELSE IF m > 54 THEN 54 ELSE m
           IN  /\ ReportedThresholdBase = clipped
               /\ ReportedThresholdBase \in lo..54
               /\ ReportedThreshold = getThresholdByType(statTestType, clipped)

C7_Witness ==
    /\ HasReport
    /\ statTestType = FACTORY_TYPE
    /\ observedTotal = 55
    /\ ReportedExpectedTotal = 48
    /\ ReportedThresholdBase = 54
    /\ ReportedThreshold = 24

\* C8: significant is true exactly when observedTotal >= threshold and
\* observedCorrect >= threshold; with observedTotal < threshold the result is
\* non-significant.
C8_SignificantIff ==
    (Called /\ observedTotal > 0) =>
        /\ HasReport
        /\ Locals.threshold = ReportedThreshold
        /\ Locals.significant =
              (observedTotal >= ReportedThreshold /\ observedCorrect >= ReportedThreshold)
        /\ (observedTotal < ReportedThreshold => ~Locals.significant)
        /\ (~ReportedShortage => result.pass = ~Locals.significant)

C8_Witness ==
    /\ HasReport
    /\ observedCorrect = ReportedThreshold
    /\ observedTotal = 54
    /\ Locals.significant
    /\ ~ReportedShortage
    /\ ~result.pass

---------------------------------------------------------------------------
(* Properties of getThresholdByType (SpecThreshold) *)

ThresholdReturned == pc = "done" /\ thresholdResult # <<>>

\* C9: for the difference test the threshold is the base value 18 for every
\* size <= 36, the tabulated value for 37..54 (40 gives 19) and the value
\* tabulated at 54 for every larger size; the lookup of line 55 never misses.
C9_FactoryThreshold ==
    (ThresholdReturned /\ statTestType = FACTORY_TYPE) =>
        LET v == thresholdResult[1]
        IN  /\ sampleSize <= 36 => v = 18
            /\ sampleSize \in 37..54 =>
                   /\ sampleSize \in DOMAIN FACTORY_DIFF_THRESHOLD_TABLE
                   /\ factoryTableVal(sampleSize) = <<v>>
            /\ sampleSize = 40 => v = 19
            /\ sampleSize > 54 => factoryTableVal(54) = <<v>> /\ v = 24
            /\ sampleSize > 36 =>
                   factoryTableVal(clampSampleSize(sampleSize, FACTORY_MIN_N, FACTORY_MAX_N)) # <<>>

C9_Witness ==
    /\ ThresholdReturned
    /\ statTestType = FACTORY_TYPE
    /\ sampleSize = 40
    /\ thresholdResult = <<19>>

\* C10: for the similarity test the threshold is maxAllowedCorrect + 1: 17 for
\* every size <= 42, the tabulated maximum plus one for 43..54 (48 gives 21)
\* and the value for 54 plus one for every larger size.
C10_AltThreshold ==
    (ThresholdReturned /\ statTestType = ALT_TYPE) =>
        LET v == thresholdResult[1]
        IN  /\ sampleSize <= 42 => v = 17
            /\ sampleSize \in 43..54 =>
                   /\ sampleSize \in DOMAIN ALT_SIMILARITY_MAX_TABLE
                   /\ v = ALT_SIMILARITY_MAX_TABLE[sampleSize] + 1
            /\ sampleSize = 48 => v = 21
            /\ sampleSize > 54 => v = ALT_SIMILARITY_MAX_TABLE[54] + 1 /\ v = 23

C10_Witness ==
    /\ ThresholdReturned
    /\ statTestType = ALT_TYPE
    /\ sampleSize = 48
    /\ thresholdResult = <<21>>

\* C11: for each test type the threshold is monotonically non-decreasing in
\* the sample size: a <= b implies threshold(a) <= threshold(b), inside the
\* table domain of the type (and, by clamping, outside it too).
C11_ThresholdMonotone ==
    ThresholdReturned =>
        \A a \in SampleSizes :
            a <= sampleSize =>
                getThresholdByType(statTestType, a) <= thresholdResult[1]

C11_Witness ==
    /\ ThresholdReturned
    /\ statTestType = FACTORY_TYPE
    /\ sampleSize = 50
    /\ thresholdResult = <<23>>
    /\ getThresholdByType(statTestType, 49) = 22

---------------------------------------------------------------------------
(* Properties of the functions of statistics.ts called directly *)

Returned == pc = "done" /\ fnResult # <<>>

\* C12: clampSampleSize(n, lo, hi) returns r with lo <= r <= hi for every n and
\* every pair of bounds it is called with, and n itself when lo <= n <= hi.
C12_ClampInRange ==
    Returned =>
        LET r == fnResult[1]
        IN  /\ fnArgs.minN <= r
            /\ r <= fnArgs.maxN
            /\ (fnArgs.minN <= fnArgs.n /\ fnArgs.n <= fnArgs.maxN) => r = fnArgs.n

C12_Witness ==
    /\ Returned
    /\ fnArgs = [n |-> 58, minN |-> 42, maxN |-> 54]
    /\ fnResult = <<54>>

\* the binomial distribution written from its definition: Pascal's rule for
\* the coefficient, P(X >= k) as the sum of the point masses from max(k, 0)
RECURSIVE Choose(_, _)
Choose(n, k) ==
    IF k < 0 \/ k > n THEN 0
    ELSE IF k = 0 \/ k = n THEN 1
    ELSE Choose(n - 1, k - 1) + Choose(n - 1, k)

PointMass(n, i, p) ==
    Frac(Choose(n, i) * Pow(p.num, i) * Pow(p.den - p.num, n - i), Pow(p.den, n))

RECURSIVE TailMassNum(_, _, _)
TailMassNum(n, i, p) ==
    IF i > n THEN 0
    ELSE IF i < 0 THEN TailMassNum(n, 0, p)
    ELSE PointMass(n, i, p).num + TailMassNum(n, i + 1, p)

TailMass(n, k, p) == Frac(TailMassNum(n, k, p), Pow(p.den, n))

SignificantCounts(n, alpha, p) == {k \in 0..n : FracLeq(TailMass(n, k, p), alpha)}

\* C13: getSignificanceThreshold(n, alpha, p) is the smallest k in 0..n with
\* P(X >= k) <= alpha, n + 1 when there is none, and 0 for every n <= 0.
C13_SmallestSignificantCount ==
    Returned =>
        LET n == fnArgs.n
            good == SignificantCounts(n, fnArgs.alpha, fnArgs.p)
            r == fnResult[1]
        IN  IF n <= 0 THEN r = 0
            ELSE IF good = {} THEN r = n + 1
            ELSE r \in good /\ \A k \in good : r <= k

C13_Witness ==
    /\ Returned
    /\ fnArgs = [n |-> 10, alpha |-> Frac(1, 10), p |-> Frac(1, 3)]
    /\ fnResult = <<6>>
    /\ SignificantCounts(10, Frac(1, 10), Frac(1, 3)) = 6..10

\* C14: for fixed alpha and p the threshold is monotonically non-decreasing
\* in n: 1 <= n <= m implies threshold(n) <= threshold(m).
C14_SignificanceMonotone ==
    Returned =>
        \A n \in 1..fnArgs.n :
            getSignificanceThreshold(n, fnArgs.alpha, fnArgs.p) <= fnResult[1]

C14_Witness ==
    /\ Returned
    /\ fnArgs = [n |-> 9, alpha |-> Frac(1, 20), p |-> Frac(1, 5)]
    /\ fnResult = <<5>>
    /\ getSignificanceThreshold(4, Frac(1, 20), Frac(1, 5)) = 3

ProbReturned == Returned /\ fnResult[1].fn = "binomProb"
TailReturned == Returned /\ fnResult[1].fn = "binomTail"

\* C15: binomProb is 0 whenever k < 0 or k > n; otherwise, for p <= 0 it is 1
\* if k = 0 and 0 if not, for p >= 1 it is 1 if k = n and 0 if not; the range
\* check on k comes first.
C15_BinomProbEdges ==
    ProbReturned =>
        LET n == fnArgs.n
            k == fnArgs.k
            p == fnArgs.p
            v == fnResult[1].value
        IN  /\ (k < 0 \/ k > n) => v = Zero
            /\ (0 <= k /\ k <= n /\ p.num <= 0) => v = (IF k = 0 THEN One ELSE Zero)
            /\ (0 <= k /\ k <= n /\ p.num >= p.den) => v = (IF k = n THEN One ELSE Zero)

C15_Witness ==
    /\ ProbReturned
    /\ fnArgs = [n |-> 0 - 1, k |-> 0 - 1, p |-> Frac(1, 1)]
    /\ fnResult[1].value = Zero

RECURSIVE SumProbs(_, _, _)
SumProbs(n, i, p) ==
    IF i > n THEN Zero ELSE FracAdd(binomProb(n, i, p), SumProbs(n, i + 1, p))

---------------------------------------------------------------------------
(* Properties of the aggregation of buildStatReport (SpecAggregate) *)

RECURSIVE SumOf(_, _)
SumOf(f, j) == IF j = 0 THEN 0 ELSE f[j] + SumOf(f, j - 1)

GroupRows == result.md.groupTableRows

\* position in the record list of the first record of group key whose answer
\* is shown as opt
FirstSeen(key, opt) ==
    LET hits == {i \in 1..Len(selectedStatRecords) :
                    /\ selectedStatRecords[i].groupKey = key
                    /\ (IF selectedStatRecords[i].answer = "" THEN "-"
                        ELSE selectedStatRecords[i].answer) = opt}
    IN  CHOOSE i \in hits : \A j \in hits : i <= j

\* C18: the six groups partition the records: the group totals sum to the
\* observed total, the group correct counts sum to observedCorrect, no group
\* has more correct records than records, and the option counts of a group
\* sum to its total; the hook's statSummary counts the same.
C18_AggregationPartitions ==
    HasReport =>
        /\ Len(GroupRows) = 6
        /\ SumOf([j \in 1..6 |-> GroupRows[j].total], 6) = observedTotal
        /\ SumOf([j \in 1..6 |-> GroupRows[j].correct], 6) = observedCorrect
        /\ \A j \in 1..6 :
              LET row == GroupRows[j]
                  n == Len(row.options)
              IN  /\ row.correct <= row.total
                  /\ SumOf([i \in 1..n |-> row.options[i].cnt], n) = row.total
                  /\ statSummary(selectedStatRecords).perGroup[row.key].total = row.total
                  /\ statSummary(selectedStatRecords).perGroup[row.key].correct = row.correct
        /\ statSummary(selectedStatRecords).total = observedTotal

C18_Witness ==
    /\ HasReport
    /\ observedTotal = 4
    /\ observedCorrect = 2
    /\ GroupRows[1].total = 3
    /\ GroupRows[1].correct = 1
    /\ GroupRows[5].total = 1
    /\ GroupRows[5].correct = 1

\* C19: the options of a group are listed by descending frequency, and options
\* of equal frequency in the order in which their text was first met in the
\* record list, for every answer text, numeric sample codes included.
C19_OptionsByFrequencyThenFirstSeen ==
    HasReport =>
        \A j \in 1..6 :
            LET row == GroupRows[j]
            IN  \A x, y \in 1..Len(row.options) :
                    x < y =>
                        /\ row.options[x].cnt >= row.options[y].cnt
                        /\ row.options[x].cnt = row.options[y].cnt =>
                              FirstSeen(row.key, row.options[x].opt)
                                  < FirstSeen(row.key, row.options[y].opt)

\* C20: buildStatReport leaves its inputs as they were: the record list keeps
\* its length, order and field values, and the other arguments their values.
C20_InputsUnmodified ==
    [][/\ selectedStatRecords' = selectedStatRecords
       /\ statTestType' = statTestType
       /\ statGroupSize' = statGroupSize
       /\ statCountWarning' = statCountWarning
       /\ selectedTestName' = selectedTestName
       /\ statSampleName' = statSampleName]_vars

C20_Witness ==
    /\ HasReport
    /\ observedTotal = 3
    /\ selectedStatRecords[1].answer = "B"
    /\ selectedStatRecords[2].answer = "527"
    /\ selectedStatRecords[3].answer = "136"
    /\ Len(result.md.correctRows) = 1

---------------------------------------------------------------------------
(* The insufficient-evidence fallback of buildStatReport (Spec) *)

\* C22: the fallback never changes a verdict: the correct count never exceeds
\* the record count, so significant is exactly "observedCorrect >= threshold"
\* and no input has fewer records than the threshold yet at least threshold
\* correct answers.
C22_FallbackNeverDecides ==
    HasReport =>
        /\ observedCorrect <= observedTotal
        /\ Locals.significant = (observedCorrect >= ReportedThreshold)
        /\ ~(observedTotal < ReportedThreshold /\ observedCorrect >= ReportedThreshold)

C22_Witness ==
    /\ HasReport
    /\ Locals.insufficient
    /\ observedTotal = ReportedThreshold - 1
    /\ observedCorrect = observedTotal
    /\ ~Locals.significant

---------------------------------------------------------------------------
(* hooks/useStatMode.ts: the hook as a state machine (SpecHook)              *)
(*                                                                         *)
(* A useState setter is an assignment; a useMemo value is recomputed by    *)
(* the action that changes what it depends on; a useEffect callback is an  *)
(* action of its own, pending from the render in which one of its          *)
(* dependencies changed until React runs it.  An async callback is one     *)
(* action per stretch between awaits, and reads the state through the      *)
(* closure taken when it was called.                                       *)

\* r.updatedAt ?? r.createdAt ?? 0: the loader always stores a number in
\* updatedAt (line 276), so the first operand decides
tsOf(r) == r.updatedAt

\* n.toLowerCase().includes(keyword) for the names and keywords of the model
Includes(name, keyword) ==
    \/ keyword = ""
    \/ keyword = "t2" /\ name = "T2"

sortedNamesOf(records) ==
    LET firsts == {i \in 1..Len(records) :
                      /\ records[i].testName # ""
                      /\ \A j \in 1..(i - 1) : records[j].testName # records[i].testName}
        maxTs(i) ==
            LET mine == {tsOf(records[j]) : j \in {k \in 1..Len(records) :
                                                      records[k].testName = records[i].testName}}
            IN  CHOOSE t \in mine : \A u \in mine : u <= t
        \* stable sort by descending time: position of the name first met at i
        rank(i) == Cardinality({j \in firsts :
                                   \/ maxTs(j) > maxTs(i)
                                   \/ maxTs(j) = maxTs(i) /\ j < i}) + 1
    IN  [p \in 1..Cardinality(firsts) |->
            records[CHOOSE i \in firsts : rank(i) = p].testName]

availableTestNames(records, search) ==
    LET matches(n) == Includes(n, search)
    IN  SelectSeq(sortedNamesOf(records), matches)

selectedStatRecordsOf(records, testName) ==
    LET mine(r) == r.testName = testName
    IN  IF testName = "" THEN records ELSE SelectSeq(records, mine)

statCountWarningOf(records, groupSize, testType) ==
    LET total == statSummary(records).total
        expected == statExpectedTotal(groupSize, testType)
        base == "count " \o ToString(total) \o " differs from "
                    \o ToString(effectiveStatGroupSize(groupSize, testType))
                    \o " x 6 = " \o ToString(expected)
    IN  IF expected <= 0 THEN ""
        ELSE IF total # expected
        THEN IF total < expected THEN base \o ": shortage" ELSE base \o ": update group size"
        ELSE ""

InSeq(x, seq) == \E i \in 1..Len(seq) : seq[i] = x

\* the three useEffect callbacks, by what they maintain
Effects == {"selection", "report", "groupSize"}

\* the effects whose dependency arrays (lines 131, 144, 151) see a change in
\* the render that follows the action; recordsReplaced: setStatRecords was
\* called, which makes availableTestNames a new array whatever its contents
DepsChanged(recordsReplaced) ==
    (IF \/ recordsReplaced
        \/ statTestSearch' # statTestSearch
        \/ selectedTestName' # selectedTestName
     THEN {"selection"} ELSE {})
    \cup (IF \/ selectedTestName' # selectedTestName
             \/ statReportForTestName' # statReportForTestName
          THEN {"report"} ELSE {})
    \cup (IF \/ statTestType' # statTestType
             \/ statGroupSize' # statGroupSize
          THEN {"groupSize"} ELSE {})

\* the render after an action: the memoised values and the effects to run
Render(ran, recordsReplaced) ==
    /\ selectedStatRecords' = selectedStatRecordsOf(statRecords', selectedTestName')
    /\ statCountWarning' =
          statCountWarningOf(selectedStatRecords', statGroupSize', statTestType')
    /\ pendingEffects' = (pendingEffects \ ran) \cup DepsChanged(recordsReplaced)

\* the variables of the direct calls, unused by the hook, and the table
CallsUnchanged ==
    UNCHANGED <<result, sampleSize, thresholdResult, fnArgs, fnResult, pc, viewContents,
                statView, pdfVars>>

\* React runs the effects of a render before it handles the next click or
\* input event, so the handlers of the panel act on settled states
Settled == pendingEffects = {}

\* writeStatReportToField returns in the step that executes its last
\* statement; nothing runs between the two
NoReturnDue == write.pc # "done"

EffectSelection_onlyWhenEmpty ==
    /\ NoReturnDue
    /\ "selection" \in pendingEffects
    /\ LET names == availableTestNames(statRecords, statTestSearch)
       IN  selectedTestName' =
              IF Len(names) = 0 THEN selectedTestName
              ELSE IF selectedTestName = "" THEN names[1]
              ELSE selectedTestName
    /\ UNCHANGED <<statTestType, statGroupSize, statSampleName, statRecords,
                   statReportMd, statReportForTestName, statLoading, statError,
                   statStatus, statWriteRecordId, statTestSearch, load, write,
                   groupSizeEdited>>
    /\ Render({"selection"}, FALSE)
    /\ CallsUnchanged

\* useEffect of lines 126-131: keep the selection inside the offered names
EffectSelection ==
    /\ NoReturnDue
    /\ "selection" \in pendingEffects
    /\ LET names == availableTestNames(statRecords, statTestSearch)
       IN  selectedTestName' =
              IF Len(names) = 0 THEN selectedTestName
              ELSE IF selectedTestName = "" \/ ~InSeq(selectedTestName, names)
              THEN names[1]
              ELSE selectedTestName
    /\ UNCHANGED <<statTestType, statGroupSize, statSampleName, statRecords,
                   statReportMd, statReportForTestName, statLoading, statError,
                   statStatus, statWriteRecordId, statTestSearch, load, write, groupSizeEdited>>
    /\ Render({"selection"}, FALSE)
    /\ CallsUnchanged

EffectStaleReport_keepsReport ==
    /\ NoReturnDue
    /\ "report" \in pendingEffects
    /\ statSampleName' = IF selectedTestName # "" THEN statSampleName ELSE ""
    /\ UNCHANGED <<statReportMd, statReportForTestName>>
    /\ UNCHANGED <<statTestType, statGroupSize, selectedTestName, statRecords,
                   statLoading, statError, statStatus, statWriteRecordId,
                   statTestSearch, load, write, groupSizeEdited>>
    /\ Render({"report"}, FALSE)
    /\ CallsUnchanged

\* useEffect of lines 133-144: the sample name of no test is empty, and a
\* report of another test is dropped; the panel is configured without
\* sample-name field, so fetchSampleNameByTest returns at line 94
EffectStaleReport ==
    /\ NoReturnDue
    /\ "report" \in pendingEffects
    /\ statSampleName' = IF selectedTestName # "" THEN statSampleName ELSE ""
    /\ IF statReportForTestName # "" /\ statReportForTestName # selectedTestName
       THEN statReportMd' = <<>> /\ statReportForTestName' = ""
       ELSE UNCHANGED <<statReportMd, statReportForTestName>>
    /\ UNCHANGED <<statTestType, statGroupSize, selectedTestName, statRecords,
                   statLoading, statError, statStatus, statWriteRecordId,
                   statTestSearch, load, write,
                   groupSizeEdited>>
    /\ Render({"report"}, FALSE)
    /\ CallsUnchanged

\* useEffect of lines 146-151: raise the group size to the minimum of the rule
EffectGroupSize ==
    /\ NoReturnDue
    /\ "groupSize" \in pendingEffects
    /\ LET rule == Lookup(TEST_TYPE_RULES, statTestType)
       IN  statGroupSize' =
              IF rule # <<>> THEN Max(statGroupSize, rule[1].groupSize) ELSE statGroupSize
    /\ UNCHANGED <<statTestType, selectedTestName, statSampleName, statRecords,
                   statReportMd, statReportForTestName, statLoading, statError,
                   statStatus, statWriteRecordId, statTestSearch, load, write, groupSizeEdited>>
    /\ Render({"groupSize"}, FALSE)
    /\ CallsUnchanged

\* the select of the panel (StatMode lines 38-45) offers availableTestNames
SetSelectedTestName ==
    /\ NoReturnDue
    /\ Settled
    /\ \E name \in {"T1", "T2"} :
          /\ InSeq(name, availableTestNames(statRecords, statTestSearch))
          /\ name # selectedTestName
          /\ selectedTestName' = name
    /\ UNCHANGED <<statTestType, statGroupSize, statSampleName, statRecords,
                   statReportMd, statReportForTestName, statLoading, statError,
                   statStatus, statWriteRecordId, statTestSearch, load, write, groupSizeEdited>>
    /\ Render({}, FALSE)
    /\ CallsUnchanged

Keywords == {"", "t2"}

\* the search box (StatMode lines 49-55)
SetStatTestSearch ==
    /\ NoReturnDue
    /\ Settled
    /\ \E keyword \in Keywords :
          /\ keyword # statTestSearch
          /\ statTestSearch' = keyword
    /\ UNCHANGED <<statTestType, statGroupSize, selectedTestName, statSampleName,
                   statRecords, statReportMd, statReportForTestName, statLoading,
                   statError, statStatus, statWriteRecordId, load, write, groupSizeEdited>>
    /\ Render({}, FALSE)
    /\ CallsUnchanged

\* an emptied input (Number('') is 0) and the sizes from the smaller rule
\* minimum on
TypedGroupSizes == {0} \cup (6..MaxTypedGroupSize)

\* the per-group input (StatMode lines 59-69): Math.max(Number(value) || 0, 1)
SetStatGroupSize ==
    /\ NoReturnDue
    /\ Settled
    /\ \E val \in TypedGroupSizes :
          /\ Max(val, 1) # statGroupSize
          /\ statGroupSize' = Max(val, 1)
    /\ groupSizeEdited' = TRUE
    /\ UNCHANGED <<statTestType, selectedTestName, statSampleName, statRecords,
                   statReportMd, statReportForTestName, statLoading, statError,
                   statStatus, statWriteRecordId, statTestSearch, load, write>>
    /\ Render({}, FALSE)
    /\ CallsUnchanged

WriteRecordIds == {"", " rec9 "}

\* the record-id input (StatMode lines 73-78)
SetStatWriteRecordId ==
    /\ NoReturnDue
    /\ Settled
    /\ \E id \in WriteRecordIds :
          /\ id # statWriteRecordId
          /\ statWriteRecordId' = id
    /\ UNCHANGED <<statTestType, statGroupSize, selectedTestName, statSampleName,
                   statRecords, statReportMd, statReportForTestName, statLoading,
                   statError, statStatus, statTestSearch, load, write, groupSizeEdited>>
    /\ Render({}, FALSE)
    /\ CallsUnchanged

\* buildReport, lines 408-427, behind its button (StatMode line 85)
BuildReport ==
    /\ NoReturnDue
    /\ Settled
    /\ ~statLoading
    /\ Len(selectedStatRecords) # 0
    /\ LET r == buildStatReport(selectedStatRecords, statTestType, statGroupSize,
                                statCountWarning, selectedTestName, statSampleName)
       IN  IF "error" \in DOMAIN r
           THEN /\ statError' = r.error
                /\ UNCHANGED <<statReportMd, statReportForTestName, statStatus>>
           ELSE /\ statError' = ""
                /\ statReportMd' = <<r.md>>
                /\ statReportForTestName' = selectedTestName
                /\ statStatus' = r.status
    /\ UNCHANGED <<statTestType, statGroupSize, selectedTestName, statSampleName,
                   statRecords, statLoading, statWriteRecordId, statTestSearch,
                   load, write, groupSizeEdited>>
    /\ Render({}, FALSE)
    /\ CallsUnchanged

\* a record as loadStatData stores it (lines 324-334)
HookRecord(i, testName, c, ts) ==
    [recordId |-> i,
     testName |-> testName,
     groupKey |-> MkRecord(i, c).groupKey,
     answer |-> MkRecord(i, c).answer,
     correct |-> MkRecord(i, c).correct,
     modifier |-> MkRecord(i, c).modifier,
     feedback |-> MkRecord(i, c).feedback,
     updatedAt |-> ts,
     createdAt |-> ts]

\* what a read of the statistics view can collect: a full panel of one test,
\* two tests and a record without test name, records without test name
\* only, and a view whose records are all filtered out
FullPanel == [i \in 1..42 |-> HookRecord(i, "T1", 10, 5)]
TwoTests == <<HookRecord(1, "T1", 1, 3), HookRecord(2, "T2", 0, 7),
              HookRecord(3, "", 0, 9), HookRecord(4, "T1", 0, 4)>>
Unnamed == <<HookRecord(1, "", 1, 3), HookRecord(2, "", 0, 4)>>
Views == {FullPanel, TwoTests, Unnamed, <<>>}

\* texts of the sample-type field: none, one that contains the factory
\* character (line 350), one that does not
DetectedSampleTypes == {"", "factory batch", "candidate"}

\* lines 347-352
normalizedSampleType(detectedSampleType) ==
    IF detectedSampleType = "" THEN DEFAULT_STAT_TEST_TYPE
    ELSE IF detectedSampleType = "factory batch" THEN FACTORY_TYPE
    ELSE ALT_TYPE

LoadIdle == [pc |-> "idle"]

\* loadStatData, lines 203-215, behind its button (StatMode line 82)
LoadStart ==
    /\ NoReturnDue
    /\ Settled
    /\ ~statLoading
    /\ load.pc = "idle"
    /\ statError' = ""
    /\ statStatus' = <<"reading statistics">>
    /\ statLoading' = TRUE
    /\ statReportMd' = <<>>
    /\ load' = [pc |-> "opening", selectedTestName |-> selectedTestName]
    /\ UNCHANGED <<statTestType, statGroupSize, selectedTestName, statSampleName,
                   statRecords, statReportForTestName, statWriteRecordId,
                   statTestSearch, write,
                   groupSizeEdited>>
    /\ Render({}, FALSE)
    /\ CallsUnchanged

\* lines 216-224: the view has no record
LoadEmptyView ==
    /\ NoReturnDue
    /\ load.pc = "opening"
    /\ statRecords' = <<>>
    /\ statStatus' = <<"no records in view">>
    /\ selectedTestName' = ""
    /\ statLoading' = FALSE
    /\ load' = LoadIdle
    /\ UNCHANGED <<statTestType, statGroupSize, statSampleName, statReportMd,
                   statReportForTestName, statError, statWriteRecordId,
                   statTestSearch, write,
                   groupSizeEdited>>
    /\ Render({}, TRUE)
    /\ CallsUnchanged

\* lines 216-227: the view has records
LoadPrepare ==
    /\ NoReturnDue
    /\ load.pc = "opening"
    /\ statStatus' = <<"preparing batch read">>
    /\ load' = [load EXCEPT !.pc = "preparing"]
    /\ UNCHANGED <<statTestType, statGroupSize, selectedTestName, statSampleName,
                   statRecords, statReportMd, statReportForTestName, statLoading,
                   statError, statWriteRecordId, statTestSearch, write, groupSizeEdited>>
    /\ Render({}, FALSE)
    /\ CallsUnchanged

\* lines 228-256: the fields are there, the batches start
LoadReadBatches ==
    /\ NoReturnDue
    /\ load.pc = "preparing"
    /\ statStatus' = <<"reading records">>
    /\ load' = [load EXCEPT !.pc = "reading"]
    /\ UNCHANGED <<statTestType, statGroupSize, selectedTestName, statSampleName,
                   statRecords, statReportMd, statReportForTestName, statLoading,
                   statError, statWriteRecordId, statTestSearch, write, groupSizeEdited>>
    /\ Render({}, FALSE)
    /\ CallsUnchanged

LoadFail_noFinally ==
    /\ NoReturnDue
    /\ load.pc \in {"opening", "preparing"}
    /\ statError' = "reading statistics failed"
    /\ statStatus' = <<>>
    /\ load' = LoadIdle
    /\ UNCHANGED <<statTestType, statGroupSize, selectedTestName, statSampleName,
                   statRecords, statReportMd, statReportForTestName, statLoading,
                   statWriteRecordId, statTestSearch, write, groupSizeEdited>>
    /\ Render({}, FALSE)
    /\ CallsUnchanged

\* a table, view or field call of lines 216-233 rejects: lines 385-391
LoadFail ==
    /\ NoReturnDue
    /\ load.pc \in {"opening", "preparing"}
    /\ statError' = "reading statistics failed"
    /\ statStatus' = <<>>
    /\ statLoading' = FALSE
    /\ load' = LoadIdle
    /\ UNCHANGED <<statTestType, statGroupSize, selectedTestName, statSampleName,
                   statRecords, statReportMd, statReportForTestName,
                   statWriteRecordId, statTestSearch, write, groupSizeEdited>>
    /\ Render({}, FALSE)
    /\ CallsUnchanged

\* lines 346-379 and 390: the batches have collected temp and detected
\* detectedSampleType
LoadFinish(temp, detectedSampleType) ==
    /\ LET sortedNames == sortedNamesOf(temp)
       IN  /\ statRecords' = temp
           /\ statTestType' = normalizedSampleType(detectedSampleType)
           /\ selectedTestName' =
                 IF load.selectedTestName = "" /\ Len(sortedNames) > 0
                 THEN sortedNames[1]
                 ELSE IF /\ load.selectedTestName # ""
                         /\ ~InSeq(load.selectedTestName, sortedNames)
                         /\ Len(sortedNames) > 0
                 THEN sortedNames[1]
                 ELSE selectedTestName
           /\ statStatus' = <<"read " \o ToString(Len(temp)) \o " records">>
    /\ statLoading' = FALSE
    /\ load' = LoadIdle
    /\ UNCHANGED <<statGroupSize, statSampleName, statReportMd,
                   statReportForTestName, statError, statWriteRecordId,
                   statTestSearch, write, groupSizeEdited>>
    /\ Render({}, TRUE)
    /\ CallsUnchanged

\* the batch loop of lines 244-344 as one step, with any of its outcomes
LoadComplete ==
    /\ NoReturnDue
    /\ load.pc = "reading"
    /\ \E temp \in viewContents : \E detectedSampleType \in DetectedSampleTypes :
          LoadFinish(temp, detectedSampleType)

\* statWriteRecordId.trim() for the ids of the model
Trim(id) == IF id = " rec9 " THEN "rec9" ELSE id

\* the options of the conclusion field, line 544
OPTION_PASSED == "optEymPCVi"
OPTION_NOT_PASSED == "optrN5PWei"

\* a finished writeStatReportToField call: reportWritten is <<the value
\* given to the report field>> (line 537), conclusionWritten <<the option
\* given to the conclusion field>> (line 545), <<>> when the call did not
\* set the field
WriteDone(outcome, reportWritten, conclusionWritten) ==
    [pc |-> "done", outcome |-> outcome,
     reportWritten |-> reportWritten, conclusionWritten |-> conclusionWritten]

HookFixedByWrite ==
    UNCHANGED <<statTestType, statGroupSize, selectedTestName, statSampleName,
                statRecords, statLoading, statWriteRecordId, statTestSearch, load,
                groupSizeEdited>>

\* writeStatReportToField, lines 439-491, behind its button (StatMode line
\* 91)
WriteStart ==
    /\ NoReturnDue
    /\ Settled
    /\ statReportMd # <<>>
    /\ ~statLoading
    /\ write.pc = "idle"
    /\ IF selectedTestName = ""
       THEN /\ statError' = "select a test name first"
            /\ write' = WriteDone("no test name", <<>>, <<>>)
            /\ UNCHANGED <<statReportMd, statReportForTestName, statStatus>>
       ELSE LET regenerate == statReportMd = <<>> \/ statReportForTestName # selectedTestName
                reportResult ==
                    buildStatReport(selectedStatRecords, statTestType, statGroupSize,
                                    statCountWarning, selectedTestName, statSampleName)
                isPass == IF "pass" \in DOMAIN reportResult THEN reportResult.pass ELSE FALSE
            IN  IF regenerate /\ "error" \in DOMAIN reportResult
                THEN /\ statError' = reportResult.error
                     /\ statStatus' = <<>>
                     /\ write' = WriteDone("no report", <<>>, <<>>)
                     /\ UNCHANGED <<statReportMd, statReportForTestName>>
                ELSE /\ statError' = ""
                     /\ statStatus' = <<"looking for the record">>
                     /\ IF regenerate
                        THEN /\ statReportMd' = <<reportResult.md>>
                             /\ statReportForTestName' = selectedTestName
                        ELSE UNCHANGED <<statReportMd, statReportForTestName>>
                     /\ write' = [pc |-> "searching",
                                  currentReportMd |-> statReportMd'[1],
                                  isPass |-> isPass,
                                  statWriteRecordId |-> statWriteRecordId]
    /\ HookFixedByWrite
    /\ Render({}, FALSE)
    /\ CallsUnchanged

WriteResolveTarget_acceptsBlankId ==
    /\ write.pc = "searching"
    /\ \E matchedRecordId \in {"", "recT"} : \E sameTable \in BOOLEAN :
          LET found == IF matchedRecordId # "" /\ sameTable THEN matchedRecordId ELSE ""
              targetRecordId == IF found # "" THEN found ELSE Trim(write.statWriteRecordId)
          IN  /\ statStatus' = IF found # "" THEN <<"record found, writing">>
                               ELSE <<"writing to record " \o targetRecordId>>
              /\ write' = [write EXCEPT !.pc = "writing report"]
                               @@ [targetRecordId |-> targetRecordId]
              /\ UNCHANGED statError
    /\ UNCHANGED <<statReportMd, statReportForTestName>>
    /\ HookFixedByWrite
    /\ Render({}, FALSE)
    /\ CallsUnchanged

\* lines 492-533; matchedRecordId: the record of the PDF table named like
\* the test ("" when there is none or the lookup failed), sameTable:
\* reportTableId === pdfTableId
WriteResolveTarget ==
    /\ write.pc = "searching"
    /\ \E matchedRecordId \in {"", "recT"} : \E sameTable \in BOOLEAN :
          LET found == IF matchedRecordId # "" /\ sameTable THEN matchedRecordId ELSE ""
              targetRecordId == IF found # "" THEN found ELSE Trim(write.statWriteRecordId)
          IN  IF targetRecordId = ""
              THEN /\ statError' = "no record found, enter a record id"
                   /\ statStatus' = <<>>
                   /\ write' = WriteDone("no target", <<>>, <<>>)
              ELSE /\ statStatus' = IF found # "" THEN <<"record found, writing">>
                                    ELSE <<"writing to record " \o targetRecordId>>
                   /\ write' = [write EXCEPT !.pc = "writing report"]
                                    @@ [targetRecordId |-> targetRecordId]
                   /\ UNCHANGED statError
    /\ UNCHANGED <<statReportMd, statReportForTestName>>
    /\ HookFixedByWrite
    /\ Render({}, FALSE)
    /\ CallsUnchanged

\* lines 535-537 succeed; hasConclusionField: reportConclusionFieldId is
\* configured, and without it the call ends at line 552
WriteReportField ==
    /\ write.pc = "writing report"
    /\ \E hasConclusionField \in BOOLEAN :
          IF hasConclusionField
          THEN /\ write' = [write EXCEPT !.pc = "writing conclusion"]
                               @@ [reportWritten |-> <<write.currentReportMd>>]
               /\ UNCHANGED statStatus
          ELSE /\ write' = WriteDone("written", <<write.currentReportMd>>, <<>>)
               /\ statStatus' = <<"report written to " \o write.targetRecordId>>
    /\ UNCHANGED <<statReportMd, statReportForTestName, statError>>
    /\ HookFixedByWrite
    /\ Render({}, FALSE)
    /\ CallsUnchanged

\* a call of lines 535-537 rejects: lines 553-556
WriteReportFieldFail ==
    /\ write.pc = "writing report"
    /\ statError' = "write failed"
    /\ statStatus' = <<>>
    /\ write' = WriteDone("write failed", <<>>, <<>>)
    /\ UNCHANGED <<statReportMd, statReportForTestName>>
    /\ HookFixedByWrite
    /\ Render({}, FALSE)
    /\ CallsUnchanged

\* lines 540-552; ok: the calls of lines 542-545 succeed, otherwise the
\* failure is logged and the call goes on (lines 546-549)
WriteConclusionField ==
    /\ write.pc = "writing conclusion"
    /\ \E ok \in BOOLEAN :
          LET optionId == IF write.isPass THEN OPTION_PASSED ELSE OPTION_NOT_PASSED
          IN  IF ok
              THEN write' = WriteDone("written", write.reportWritten, <<optionId>>)
              ELSE write' = WriteDone("written", write.reportWritten, <<>>)
    /\ statStatus' = <<"report written to " \o write.targetRecordId>>
    /\ UNCHANGED <<statReportMd, statReportForTestName, statError>>
    /\ HookFixedByWrite
    /\ Render({}, FALSE)
    /\ CallsUnchanged

\* the call is over: its closure is dropped
WriteReturn ==
    /\ write.pc = "done"
    /\ write' = [pc |-> "idle"]
    /\ UNCHANGED <<statReportMd, statReportForTestName, statError, statStatus>>
    /\ HookFixedByWrite
    /\ Render({}, FALSE)
    /\ CallsUnchanged

HookMounted ==
    /\ PdfIdle
    /\ statRecords = <<>>
    /\ selectedTestName = ""
    /\ statTestType = DEFAULT_STAT_TEST_TYPE
    /\ statSampleName = ""
    /\ statGroupSize = 6
    /\ statReportMd = <<>>
    /\ statReportForTestName = ""
    /\ statLoading = FALSE
    /\ statError = ""
    /\ statStatus = <<>>
    /\ statWriteRecordId = ""
    /\ statTestSearch = ""
    /\ selectedStatRecords = <<>>
    /\ statCountWarning = statCountWarningOf(<<>>, 6, DEFAULT_STAT_TEST_TYPE)
    /\ pendingEffects = Effects
    /\ load = LoadIdle
    /\ write = [pc |-> "idle"]
    /\ groupSizeEdited = FALSE
    /\ result = NoResult
    /\ sampleSize = 0
    /\ thresholdResult = <<>>
    /\ fnArgs = <<>>
    /\ fnResult = <<>>
    /\ pc = "hook"
    /\ statView = <<>>

\* SpecHook: the panel from its mount, reading any of the views, selecting,
\* searching, resizing and building reports
InitHook ==
    /\ HookMounted
    /\ viewContents = Views

NextHook ==
    \/ EffectSelection
    \/ EffectStaleReport
    \/ EffectGroupSize
    \/ SetSelectedTestName
    \/ SetStatTestSearch
    \/ SetStatGroupSize
    \/ BuildReport
    \/ LoadStart
    \/ LoadEmptyView
    \/ LoadPrepare
    \/ LoadReadBatches
    \/ LoadFail
    \/ LoadComplete

SpecHook == InitHook /\ [][NextHook]_vars

\* every call loadStatData awaits settles: a read in flight takes its next step
LoadStep == LoadEmptyView \/ LoadPrepare \/ LoadReadBatches \/ LoadFail \/ LoadComplete

FairSpecHook == SpecHook /\ WF_vars(LoadStep)

\* the panel after a read of the view that collected temp and detected
\* testType, once the effects have run (a state of SpecHook)
HookLoaded(temp, testType) ==
    /\ PdfIdle
    /\ statRecords = temp
    /\ selectedTestName = IF Len(sortedNamesOf(temp)) > 0 THEN sortedNamesOf(temp)[1] ELSE ""
    /\ statTestType = testType
    /\ statSampleName = ""
    /\ statGroupSize = 7
    /\ statReportMd = <<>>
    /\ statReportForTestName = ""
    /\ statLoading = FALSE
    /\ statError = ""
    /\ statStatus = <<"read " \o ToString(Len(temp)) \o " records">>
    /\ statWriteRecordId = ""
    /\ statTestSearch = ""
    /\ selectedStatRecords = selectedStatRecordsOf(statRecords, selectedTestName)
    /\ statCountWarning = statCountWarningOf(selectedStatRecords, 7, testType)
    /\ pendingEffects = {}
    /\ load = LoadIdle
    /\ write = [pc |-> "idle"]
    /\ groupSizeEdited = FALSE
    /\ result = NoResult
    /\ sampleSize = 0
    /\ thresholdResult = <<>>
    /\ fnArgs = <<>>
    /\ fnResult = <<>>
    /\ pc = "hook"
    /\ viewContents = Views
    /\ statView = <<>>

\* SpecWrite: the panel after a read, selecting, resizing, building and
\* writing reports
InitWrite ==
    \E temp \in Views \ {<<>>} : \E testType \in {FACTORY_TYPE, ALT_TYPE} :
        HookLoaded(temp, testType)

NextWrite ==
    \/ EffectSelection
    \/ EffectStaleReport
    \/ EffectGroupSize
    \/ SetSelectedTestName
    \/ SetStatGroupSize
    \/ SetStatWriteRecordId
    \/ BuildReport
    \/ WriteStart
    \/ WriteResolveTarget
    \/ WriteReportField
    \/ WriteReportFieldFail
    \/ WriteConclusionField
    \/ WriteReturn

SpecWrite == InitWrite /\ [][NextWrite]_vars

---------------------------------------------------------------------------
(* hooks/useStatMode.ts: the batch loop of loadStatData (SpecLoad)           *)
(*                                                                         *)
(* The view is a list of record ids (0 stands for an empty id) and the     *)
(* field values are functions of the id.  A per-record fetch is one step:  *)
(* the stretch after its last await, where it reads and writes the shared  *)
(* detectedSampleType.  The fetches of a window settle in any order that   *)
(* takes the first or the last pending fetch next.                         *)

\* line 251
batchSize == 50

\* getTimeRangeStartTimestamp(timeRange), lines 192-201, on the model's clock
timeRangeStart == 100

\* view.getVisibleRecordIdList(): n record ids, and an empty id in second
\* place when n is odd
recordIdsOf(n) ==
    IF n % 2 = 1 THEN <<1, 0>> \o [i \in 1..(n - 1) |-> i + 1] ELSE [i \in 1..n |-> i]

\* groupField.getValue(rid), upper-cased: one of the six labels, or, for
\* every seventh record, another text
groupTextOf(rid) == IF rid % 7 = 0 THEN "C1" ELSE GroupKeys[(rid % 7)]

\* createdField.getValue(rid) as a timestamp: unknown (0) for every fourth
\* record, before the time range for every fifth, inside it otherwise
createdAtOf(rid) == IF rid % 4 = 0 THEN 0 ELSE IF rid % 5 = 0 THEN 10 ELSE 200

\* sampleTypeField.getValue(rid) as text
sampleTypeTextOf(rid, typePattern) ==
    IF typePattern = "none" THEN ""
    ELSE IF typePattern = "factory" THEN "factory batch"
    ELSE IF rid % 2 = 1 THEN "factory batch" ELSE "candidate"

TypePatterns == {"none", "factory", "mixed"}

\* the group whose correct-answer field table.getField cannot find, if any
MissingCorrectFields == {"", "B3"}

\* lines 324-334
statRecordOf(rid) ==
    [recordId |-> rid,
     testName |-> "T1",
     groupKey |-> groupTextOf(rid),
     answer |-> MkRecord(rid, 2).answer,
     correct |-> MkRecord(rid, 2).correct,
     modifier |-> MkRecord(rid, 2).modifier,
     feedback |-> MkRecord(rid, 2).feedback,
     updatedAt |-> rid,
     createdAt |-> createdAtOf(rid)]

\* lines 260-339 up to the record or null: <<>> is null
fetchResult_keepsOld(rid, view) ==
    IF ~InSeq(groupTextOf(rid), GroupKeys) THEN <<>>
    ELSE IF groupTextOf(rid) = view.missingCorrectField THEN <<>>
    ELSE <<statRecordOf(rid)>>

fetchResult(rid, view) ==
    IF createdAtOf(rid) > 0 /\ createdAtOf(rid) < timeRangeStart THEN <<>>
    ELSE IF ~InSeq(groupTextOf(rid), GroupKeys) THEN <<>>
    ELSE IF groupTextOf(rid) = view.missingCorrectField THEN <<>>
    ELSE <<statRecordOf(rid)>>

\* lines 317-322, reached by the fetches that return a record
detectedAfter(detectedSampleType, rid, view) ==
    IF /\ fetchResult(rid, view) # <<>>
       /\ detectedSampleType = ""
       /\ sampleTypeTextOf(rid, view.typePattern) # ""
    THEN sampleTypeTextOf(rid, view.typePattern)
    ELSE detectedSampleType

\* line 244
validRecordIds(view) == LET valid(id) == id # 0 IN SelectSeq(view.recordIds, valid)

SeqToSet(seq) == {seq[i] : i \in 1..Len(seq)}

Pending == SeqToSet(load.batchIds) \ load.settled

\* lines 252-259: the next window of ids, a fetch started for each
StartBatch ==
    /\ load.pc = "loop"
    /\ load.batchStart < Len(validRecordIds(statView))
    /\ LET batchEnd == Min(load.batchStart + batchSize, Len(validRecordIds(statView)))
           batchIds == SubSeq(validRecordIds(statView), load.batchStart + 1, batchEnd)
       IN  load' = [load EXCEPT !.pc = "fetching",
                                !.batchIds = batchIds,
                                !.settled = {},
                                !.started = [rid \in DOMAIN load.started |->
                                                IF rid \in SeqToSet(batchIds)
                                                THEN load.started[rid] + 1
                                                ELSE load.started[rid]]]
    /\ statStatus' = <<"reading records">>
    /\ UNCHANGED <<statTestType, statGroupSize, selectedTestName, statSampleName,
                   statRecords, statReportMd, statReportForTestName, statLoading,
                   statError, statWriteRecordId, statTestSearch, write,
                   groupSizeEdited>>
    /\ Render({}, FALSE)
    /\ CallsUnchanged

\* lines 260-339: the fetch of one record of the window settles
FetchSettle ==
    /\ load.pc = "fetching"
    /\ \E rid \in Pending :
          /\ \/ \A other \in Pending : rid <= other
             \/ \A other \in Pending : other <= rid
          /\ load' = [load EXCEPT
                         !.settled = @ \cup {rid},
                         !.detectedSampleType = detectedAfter(@, rid, statView)]
    /\ UNCHANGED <<statTestType, statGroupSize, selectedTestName, statSampleName,
                   statRecords, statReportMd, statReportForTestName, statLoading,
                   statError, statStatus, statWriteRecordId, statTestSearch, write,
                   groupSizeEdited>>
    /\ Render({}, FALSE)
    /\ CallsUnchanged

\* batchResults (line 341): the values of the fetches in the order of batchIds
RECURSIVE validResultsOf(_, _)
validResultsOf(ids, view) ==
    IF Len(ids) = 0 THEN <<>>
    ELSE fetchResult(Head(ids), view) \o validResultsOf(Tail(ids), view)

\* lines 341-343 and the loop step of line 252: every fetch has settled
CollectBatch ==
    /\ load.pc = "fetching"
    /\ Pending = {}
    /\ load' = [load EXCEPT !.pc = "loop",
                            !.temp = @ \o validResultsOf(load.batchIds, statView),
                            !.batchStart = @ + batchSize]
    /\ UNCHANGED <<statTestType, statGroupSize, selectedTestName, statSampleName,
                   statRecords, statReportMd, statReportForTestName, statLoading,
                   statError, statStatus, statWriteRecordId, statTestSearch, write,
                   groupSizeEdited>>
    /\ Render({}, FALSE)
    /\ CallsUnchanged

\* lines 346-379 and 390, after the last window
LoadBatchesDone ==
    /\ load.pc = "loop"
    /\ load.batchStart >= Len(validRecordIds(statView))
    /\ LoadFinish(load.temp, load.detectedSampleType)

ViewLens == {n \in 1..MaxViewLen : n <= 3 \/ n >= batchSize}

\* SpecLoad: a mounted panel whose read has reached the batch loop
InitLoad ==
    /\ PdfIdle
    /\ \E n \in ViewLens : \E typePattern \in TypePatterns :
          \E missingCorrectField \in MissingCorrectFields :
             statView = [recordIds |-> recordIdsOf(n),
                         typePattern |-> typePattern,
                         missingCorrectField |-> missingCorrectField]
    /\ load = [pc |-> "loop", selectedTestName |-> "", batchStart |-> 0,
               batchIds |-> <<>>, settled |-> {}, temp |-> <<>>,
               detectedSampleType |-> "",
               started |-> [rid \in SeqToSet(validRecordIds(statView)) |-> 0]]
    /\ statRecords = <<>>
    /\ selectedTestName = ""
    /\ statTestType = DEFAULT_STAT_TEST_TYPE
    /\ statSampleName = ""
    /\ statGroupSize = 7
    /\ statReportMd = <<>>
    /\ statReportForTestName = ""
    /\ statLoading = TRUE
    /\ statError = ""
    /\ statStatus = <<"reading records">>
    /\ statWriteRecordId = ""
    /\ statTestSearch = ""
    /\ selectedStatRecords = <<>>
    /\ statCountWarning = statCountWarningOf(<<>>, 7, DEFAULT_STAT_TEST_TYPE)
    /\ pendingEffects = {}
    /\ write = [pc |-> "idle"]
    /\ groupSizeEdited = FALSE
    /\ viewContents = {}
    /\ result = NoResult
    /\ sampleSize = 0
    /\ thresholdResult = <<>>
    /\ fnArgs = <<>>
    /\ fnResult = <<>>
    /\ pc = "hook"

NextLoad == StartBatch \/ FetchSettle \/ CollectBatch \/ LoadBatchesDone

SpecLoad == InitLoad /\ [][NextLoad]_vars

---------------------------------------------------------------------------
(* Properties of the hook (SpecHook) *)

\* C21: as long as the user has not typed a per-group size, once the effects
\* have settled the effective group size is the minimum group size of the
\* active test type (7 for the similarity test, 6 for the difference test),
\* whatever test types loadStatData has set.
C21_UntouchedGroupSizeIsRuleMinimum ==
    (Settled /\ ~groupSizeEdited) =>
        effectiveStatGroupSize(statGroupSize, statTestType) = RuleMinGroupSize(statTestType)

\* C24: once the effects have settled, a report on display belongs to the
\* selected test: statReportMd is empty or statReportForTestName is the
\* selected test name.
C24_ReportBelongsToSelectedTest ==
    (Settled /\ statReportMd # <<>>) => statReportForTestName = selectedTestName

C24_Witness ==
    /\ Settled
    /\ statRecords = TwoTests
    /\ statReportMd # <<>>
    /\ statReportForTestName = "T1"
    /\ selectedTestName = "T1"
    /\ statTestSearch = ""

\* C27: a loadStatData call that has set statLoading sets it back: on
\* success, on an empty view and on a failed table, view or field call; the
\* failure sets statError and clears statStatus.
C27_LoadingEnds ==
    /\ statLoading ~> ~statLoading
    /\ [][(load.pc # "idle" /\ load'.pc = "idle") => ~statLoading']_vars
    /\ [][(load.pc # "idle" /\ load'.pc = "idle" /\ statError' # "") =>
             statStatus' = <<>>]_vars
    /\ [][(LoadFail \/ LoadEmptyView \/ LoadComplete) => ~statLoading']_vars
    /\ [][LoadFail => (statError' # "" /\ statStatus' = <<>>)]_vars

C27_Witness ==
    /\ load.pc = "idle"
    /\ ~statLoading
    /\ statError = "reading statistics failed"
    /\ statStatus = <<>>
    /\ statRecords = FullPanel

\* C29: once the effects have settled, a non-empty list of offered test
\* names contains the selected test name, and the selected records are the
\* records of that one test.
C29_SelectionIsOffered ==
    (Settled /\ Len(availableTestNames(statRecords, statTestSearch)) > 0) =>
        /\ InSeq(selectedTestName, availableTestNames(statRecords, statTestSearch))
        /\ \A i \in 1..Len(selectedStatRecords) :
              selectedStatRecords[i].testName = selectedTestName
        /\ \A i \in 1..Len(statRecords) :
              statRecords[i].testName = selectedTestName =>
                  InSeq(statRecords[i], selectedStatRecords)

C29_Witness ==
    /\ Settled
    /\ statRecords = TwoTests
    /\ statTestSearch = "t2"
    /\ load.pc = "idle"
    /\ selectedTestName = "T2"
    /\ Len(selectedStatRecords) = 1

---------------------------------------------------------------------------
(* Properties of writeStatReportToField (SpecWrite) *)

\* the markdown states the verdict it was generated with: its conclusion is
\* the "passed" sentence exactly when pass was true (statReport.ts lines
\* 135-141)
GeneratedWithPass(md) == md.conclusion.kind = "passed"

WriteOver == write.pc = "done"

\* C23: the option a call writes to the conclusion field agrees with the
\* markdown the same call writes to the report field: "test passed" is
\* written exactly when that markdown was generated with pass = true.
C23_ConclusionAgreesWithReport ==
    (WriteOver /\ write.reportWritten # <<>> /\ write.conclusionWritten # <<>>) =>
        (write.conclusionWritten[1] = OPTION_PASSED
            <=> GeneratedWithPass(write.reportWritten[1]))


\* the call is over without a field write and with an error shown
WriteRefused ==
    /\ write.pc = "done"
    /\ write.reportWritten = <<>>
    /\ write.conclusionWritten = <<>>
    /\ statError # ""

WriteCalled == write.pc = "idle" /\ write'.pc # "idle"

---------------------------------------------------------------------------
(* Properties of the batch loop of loadStatData (SpecLoad) *)

LoadOver == load.pc = "idle"

\* the sample type the fetches detect when they settle in view order
RECURSIVE detectedInOrder(_, _, _)
detectedInOrder(detectedSampleType, ids, view) ==
    IF Len(ids) = 0 THEN detectedSampleType
    ELSE detectedInOrder(detectedAfter(detectedSampleType, Head(ids), view), Tail(ids), view)

\* C25: the test type loadStatData selects depends on the fetched records
\* only: whatever the order in which the fetches of a window settle, it is
\* the type selected when they settle in view order.
C25_TestTypeIndependentOfOrder ==
    LoadOver =>
        statTestType =
            normalizedSampleType(detectedInOrder("", validRecordIds(statView), statView))

\* the filters of lines 292-304
PassesFilters(rid) ==
    /\ groupTextOf(rid) \in SeqToSet(GroupKeys)
    /\ (createdAtOf(rid) = 0 \/ createdAtOf(rid) >= timeRangeStart)

\* the fetch of the record runs to its end (no call of lines 306-311 throws)
FetchSucceeds(rid) == groupTextOf(rid) # statView.missingCorrectField

PassingIds == LET passes(rid) == PassesFilters(rid) IN SelectSeq(validRecordIds(statView), passes)

KeptIds ==
    LET kept(rid) == PassesFilters(rid) /\ FetchSucceeds(rid)
    IN  SelectSeq(validRecordIds(statView), kept)

WindowsInTurn ==
    /\ [](load.pc = "fetching" =>
             /\ Len(load.batchIds) <= 50
             /\ Len(load.batchIds) > 0
             /\ load.batchIds = SubSeq(validRecordIds(statView), load.batchStart + 1,
                                        load.batchStart + Len(load.batchIds)))
    /\ [](load.pc = "loop" => Pending = {})
    /\ [](load.pc \in {"loop", "fetching"} =>
             \A rid \in DOMAIN load.started :
                 load.started[rid] = IF \/ rid \in SeqToSet(load.batchIds)
                                        \/ \E i \in 1..Min(load.batchStart,
                                                            Len(validRecordIds(statView))) :
                                              validRecordIds(statView)[i] = rid
                                     THEN 1 ELSE 0)
    /\ [][(load.pc = "loop" /\ load'.pc = "idle") =>
             \A rid \in DOMAIN load.started : load.started[rid] = 1]_vars

\* C30 as stated: the windows of at most 50 fetches follow one another, every
\* valid id is fetched once, and the record list is, in view order, the
\* records that pass the group and time filters.
C30_RecordsPassingFilters ==
    /\ WindowsInTurn
    /\ [](LoadOver => statRecords = [i \in 1..Len(PassingIds) |-> statRecordOf(PassingIds[i])])

\* C30 amended: ... the record list is, in view order, the records that pass
\* the group and time filters and whose fetch did not fail.
C30_RecordsPassingFiltersAndFetched ==
    /\ WindowsInTurn
    /\ [](LoadOver => statRecords = [i \in 1..Len(KeptIds) |-> statRecordOf(KeptIds[i])])

C30_Witness ==
    /\ LoadOver
    /\ ~statLoading
    /\ Len(validRecordIds(statView)) = 52
    /\ statView.missingCorrectField = "B3"
    /\ Len(statRecords) = Len(KeptIds)
    /\ Len(KeptIds) < Len(PassingIds)
    /\ Len(KeptIds) > 20


---------------------------------------------------------------------------
(* SpecPdf: usePdfMode behind the PdfMode panel *)

\* The texts of the index column, the search box and the pages of the list
\* are left out: the list shows every record of allRecords. testName,
\* testSampleType and testSampleName, which loadRecord reads before the
\* groups (lines 522-544), are left out as well.

pdfTableId == "tblPdf"

pdfAttachmentFieldId == "fldPdf"

\* keys of the configured groups (DEFAULT_GROUPS)
groupConfigs == GroupKeys

\* what getVisibleRecordIdList returns at the time of a read; an id can be
\* undefined, written ""
RecordIdLists == {<<>>, <<"recA">>, <<"recA", "recB">>, <<"", "recB">>}

\* toText(val) || recId of lines 435-439
primaryValueOf(recId) == "test " \o recId

recordsOf(recordIdList) ==
    LET valid(id) == id # ""
        validIds == SelectSeq(recordIdList, valid)
    IN  [i \in 1..Len(validIds) |->
            [recordId |-> validIds[i], primaryValue |-> primaryValueOf(validIds[i])]]

hasLoaded == Len(groups) > 0

PdfStatUnchanged ==
    UNCHANGED <<selectedStatRecords, statTestType, statGroupSize, statCountWarning,
                selectedTestName, statSampleName, result, sampleSize, thresholdResult,
                fnArgs, fnResult, pc, statRecords, statReportMd, statReportForTestName,
                statLoading, statError, statStatus, statWriteRecordId, statTestSearch,
                pendingEffects, load, write, groupSizeEdited, viewContents, statView>>

\* the refresh button of PdfMode (part_008 lines 72-78) calls
\* fetchRecordList(false): lines 384-391 up to the first await
RefreshRecordList ==
    /\ ~initLoading
    /\ ~recordListLoading
    /\ fetchList.pc = "idle"
    /\ recordListLoading' = TRUE
    /\ error' = ""
    /\ fetchList' = [pc |-> "table", isInitial |-> FALSE]
    /\ UNCHANGED <<tableId, allRecords, selectedRecordId, selectedRecordName, groups,
                   initLoading, loading, status, loadRec, build, uploaded>>
    /\ PdfStatUnchanged

\* lines 392-393: the table is found
FetchTable ==
    /\ fetchList.pc = "table"
    /\ tableId' = pdfTableId
    /\ fetchList' = [fetchList EXCEPT !.pc = "list"]
    /\ UNCHANGED <<allRecords, selectedRecordId, selectedRecordName, groups, initLoading,
                   recordListLoading, loading, error, status, loadRec, build, uploaded>>
    /\ PdfStatUnchanged

\* the finally block of lines 474-480
FetchReturns ==
    /\ initLoading' = IF fetchList.isInitial THEN FALSE ELSE initLoading
    /\ recordListLoading' = IF fetchList.isInitial THEN recordListLoading ELSE FALSE
    /\ fetchList' = [pc |-> "idle"]

\* a call of lines 392-448 throws: lines 467-473
FetchRecordListFail ==
    /\ fetchList.pc \in {"table", "list"}
    /\ error' = IF fetchList.isInitial THEN "init failed" ELSE "refresh failed"
    /\ FetchReturns
    /\ UNCHANGED <<tableId, allRecords, selectedRecordId, selectedRecordName, groups,
                   loading, status, loadRec, build, uploaded>>
    /\ PdfStatUnchanged

\* lines 414-428: the view has no record
FetchRecordListEmpty ==
    /\ fetchList.pc = "list"
    /\ allRecords' = <<>>
    /\ status' = IF fetchList.isInitial THEN "" ELSE "view has no record"
    /\ selectedRecordId' = ""
    /\ groups' = IF selectedRecordId # "" THEN <<>> ELSE groups
    /\ selectedRecordName' = IF selectedRecordId # "" THEN "" ELSE selectedRecordName
    /\ FetchReturns
    /\ UNCHANGED <<tableId, loading, error, loadRec, build, uploaded>>
    /\ PdfStatUnchanged

\* lines 414-466: the view has records
FetchRecordListDone ==
    /\ fetchList.pc = "list"
    /\ \E recordIdList \in RecordIdLists \ {<<>>} :
          LET records == recordsOf(recordIdList)
              hits == {i \in 1..Len(records) : records[i].recordId = selectedRecordId}
          IN  /\ allRecords' = records
              /\ IF selectedRecordId = ""
                 THEN UNCHANGED <<selectedRecordId, selectedRecordName, groups>>
                 ELSE IF hits # {}
                      THEN /\ selectedRecordName' = primaryValueOf(selectedRecordId)
                           /\ UNCHANGED <<selectedRecordId, groups>>
                      ELSE /\ groups' = <<>>
                           /\ selectedRecordName' = ""
                           /\ selectedRecordId' = ""
              /\ status' = IF fetchList.isInitial THEN status
                            ELSE "refreshed " \o ToString(Len(records))
    /\ FetchReturns
    /\ UNCHANGED <<tableId, loading, error, loadRec, build, uploaded>>
    /\ PdfStatUnchanged

\* lines 504-509; the list is drawn once the first read is over (part_008
\* lines 55-64, 105-110)
HandleSelectRecord ==
    /\ ~initLoading
    /\ \E i \in 1..Len(allRecords) :
          /\ selectedRecordId' = allRecords[i].recordId
          /\ selectedRecordName' = allRecords[i].primaryValue
    /\ groups' = <<>>
    /\ status' = ""
    /\ UNCHANGED <<tableId, allRecords, initLoading, recordListLoading, loading, error,
                   fetchList, loadRec, build, uploaded>>
    /\ PdfStatUnchanged

\* lines 511-518 behind the button of part_008 line 151
LoadRecordStart ==
    /\ ~initLoading
    /\ selectedRecordId # ""
    /\ ~loading
    /\ error' = ""
    /\ status' = "reading"
    /\ loading' = TRUE
    /\ loadRec' = [pc |-> "reading", selectedRecordId |-> selectedRecordId,
                   tableId |-> tableId]
    /\ UNCHANGED <<tableId, allRecords, selectedRecordId, selectedRecordName, groups,
                   initLoading, recordListLoading, fetchList, build, uploaded>>
    /\ PdfStatUnchanged

\* lines 546-584 and 589-591: the groups read from the record the call
\* closed over
LoadRecordDone ==
    /\ loadRec.pc = "reading"
    /\ groups' = [i \in 1..Len(groupConfigs) |->
                     [key |-> groupConfigs[i], recordId |-> loadRec.selectedRecordId]]
    /\ status' = "read"
    /\ loading' = FALSE
    /\ loadRec' = [pc |-> "idle"]
    /\ UNCHANGED <<tableId, allRecords, selectedRecordId, selectedRecordName, initLoading,
                   recordListLoading, error, fetchList, build, uploaded>>
    /\ PdfStatUnchanged

\* lines 585-591
LoadRecordFail ==
    /\ loadRec.pc = "reading"
    /\ error' = "read failed"
    /\ status' = ""
    /\ loading' = FALSE
    /\ loadRec' = [pc |-> "idle"]
    /\ UNCHANGED <<tableId, allRecords, selectedRecordId, selectedRecordName, groups,
                   initLoading, recordListLoading, fetchList, build, uploaded>>
    /\ PdfStatUnchanged

\* handleBuildPdf (part_008 lines 40-53) behind the button of line 154, and
\* buildPdf up to its first await (part_004 lines 44-51)
BuildPdfStart ==
    /\ ~initLoading
    /\ hasLoaded
    /\ ~loading
    /\ error' = ""
    /\ status' = "generating"
    /\ loading' = TRUE
    /\ build' = [pc |-> "generating", groups |-> groups, recordId |-> selectedRecordId,
                 tableId |-> tableId]
    /\ UNCHANGED <<tableId, allRecords, selectedRecordId, selectedRecordName, groups,
                   initLoading, recordListLoading, fetchList, loadRec, uploaded>>
    /\ PdfStatUnchanged

\* part_004 lines 69-80 (no font for a Chinese text) and 440-446
BuildPdfFail ==
    /\ build.pc = "generating"
    /\ error' \in {"no font", "generation failed"}
    /\ status' = ""
    /\ loading' = FALSE
    /\ build' = [pc |-> "idle"]
    /\ UNCHANGED <<tableId, allRecords, selectedRecordId, selectedRecordName, groups,
                   initLoading, recordListLoading, fetchList, loadRec, uploaded>>
    /\ PdfStatUnchanged

\* part_004 lines 364-394: the sheet of the groups goes to the attachment
\* field of recordId; lines 396-446
BuildPdfUpload ==
    /\ build.pc = "generating"
    /\ IF build.recordId # "" /\ build.tableId # "" /\ pdfAttachmentFieldId # ""
       THEN \E success \in {"yes", "no", "threw"} :
               /\ uploaded' = IF success = "yes"
                               THEN <<[recordId |-> build.recordId,
                                       sheetOf |-> build.groups[1].recordId]>>
                               ELSE uploaded
               /\ status' = CASE success = "yes" -> "uploaded"
                               [] success = "no" -> "upload failed"
                               [] OTHER -> "upload threw"
       ELSE /\ status' = "downloaded"
            /\ UNCHANGED uploaded
    /\ loading' = FALSE
    /\ build' = [pc |-> "idle"]
    /\ UNCHANGED <<tableId, allRecords, selectedRecordId, selectedRecordName, groups,
                   initLoading, recordListLoading, error, fetchList, loadRec>>
    /\ PdfStatUnchanged

\* the panel at its mount: the effect of lines 485-491 has called
\* fetchRecordList(true)
InitPdf ==
    /\ StatIdle
    /\ selectedStatRecords = <<>>
    /\ statTestType = DEFAULT_STAT_TEST_TYPE
    /\ statGroupSize = 0
    /\ statCountWarning = ""
    /\ selectedTestName = ""
    /\ statSampleName = ""
    /\ result = NoResult
    /\ sampleSize = 0
    /\ thresholdResult = <<>>
    /\ fnArgs = <<>>
    /\ fnResult = <<>>
    /\ pc = "pdf"
    /\ tableId = ""
    /\ allRecords = <<>>
    /\ selectedRecordId = ""
    /\ selectedRecordName = ""
    /\ groups = <<>>
    /\ initLoading = TRUE
    /\ recordListLoading = FALSE
    /\ loading = FALSE
    /\ error = ""
    /\ status = ""
    /\ fetchList = [pc |-> "table", isInitial |-> TRUE]
    /\ loadRec = [pc |-> "idle"]
    /\ build = [pc |-> "idle"]
    /\ uploaded = <<>>

NextPdf ==
    \/ RefreshRecordList
    \/ FetchTable
    \/ FetchRecordListFail
    \/ FetchRecordListEmpty
    \/ FetchRecordListDone
    \/ HandleSelectRecord
    \/ LoadRecordStart
    \/ LoadRecordDone
    \/ LoadRecordFail
    \/ BuildPdfStart
    \/ BuildPdfFail
    \/ BuildPdfUpload

SpecPdf == InitPdf /\ [][NextPdf]_vars

---------------------------------------------------------------------------
(* Properties of PDF mode (SpecPdf) *)

\* C26: whenever hasLoaded is true the groups were read from the record that
\* is selected now, and a sheet uploaded to a record's attachment field is
\* the sheet of that record.
C26_GroupsOfSelectedRecord ==
    /\ hasLoaded => \A i \in 1..Len(groups) : groups[i].recordId = selectedRecordId
    /\ uploaded # <<>> => uploaded[1].sheetOf = uploaded[1].recordId

=============================================================================
